---- MODULE Spec2Model ----
(***************************************************************************)
(* A model of the CIECAM02 colour appearance code of Huescale and of the   *)
(* contrast compensation built on it.                                      *)
(*                                                                         *)
(* Numbers.  The program computes with JavaScript numbers (IEEE-754        *)
(* doubles).  The model computes with decimal floating point numbers       *)
(* <<m, e>> standing for m * 10^e, with an eight digit mantissa            *)
(* (10^7 <= |m| < 10^8, or m = 0 for zero) and with the three IEEE special *)
(* values NaN, +Infinity and -Infinity.  Every arithmetic operator follows *)
(* the IEEE/ECMAScript rules for the special values (0/0 = NaN,            *)
(* x/0 = +-Infinity, pow of a negative base to a fractional power = NaN,   *)
(* Math.max(NaN, x) = NaN, every comparison with NaN false, ...).  A sum   *)
(* is rounded to the nearest number of eight digits, as IEEE addition      *)
(* rounds; products, quotients and the functions of Math are truncated to  *)
(* eight digits.  Overflow beyond the double range gives an infinity and   *)
(* underflow gives zero.  Signed zeros are not distinguished.              *)
(***************************************************************************)
EXTENDS Integers, Sequences, FiniteSets, TLC

\* The constants of the module that are objects (arrays and records) live in the
\* program's memory, where a statement could write to them; memory holds their
\* current values and every function reads them there.
VARIABLE memory

\* ---------------------------------------------------------------------------
\* JavaScript numbers
\* ---------------------------------------------------------------------------

NaN == <<0, 9999>>
PosInf == <<1, 9999>>
NegInf == <<-1, 9999>>
Zero == <<0, 0>>
One == <<10000000, -7>>
Two == <<20000000, -7>>
Half == <<50000000, -8>>

\* The value of result, after the values of statements.  TLC evaluates the
\* argument of an operator when it is first used; listing a value first has it
\* computed before the result is, as the program does.
InOrder(statements, result) == <<statements, result>>[2]

\* Call(f, args) is the value of the function or operation named f for the
\* arguments args: every call of a function and every arithmetic operation of the
\* program goes through it.  It is defined after the functions it calls.
RECURSIVE Call(_, _)

\* a * b, a + b, a - b, a / b and the functions of Math
fMul(a, b) == Call("*", <<a, b>>)
fAdd(a, b) == Call("+", <<a, b>>)
fSub(a, b) == Call("-", <<a, b>>)
fDiv(a, b) == Call("/", <<a, b>>)
fPow(a, b) == Call("Math.pow", <<a, b>>)
fSqrt(a) == Call("Math.sqrt", <<a>>)
fCbrt(a) == Call("Math.cbrt", <<a>>)
fSin(a) == Call("Math.sin", <<a>>)
fCos(a) == Call("Math.cos", <<a>>)
fAtan2(a, b) == Call("Math.atan2", <<a, b>>)
fExp(a) == Call("Math.exp", <<a>>)

IsNaN(x) == x = NaN
IsSpecial(x) == x[2] = NaN[2]
IsInf(x) == IsSpecial(x) /\ x[1] # 0
IsFinite(x) == ~IsSpecial(x)
Sgn(x) == IF x[1] > 0 THEN 1 ELSE IF x[1] < 0 THEN -1 ELSE 0
AbsInt(i) == IF i < 0 THEN -i ELSE i

Pow10(k) ==
  <<1, 10, 100, 1000, 10000, 100000, 1000000, 10000000, 100000000, 1000000000>>[k + 1]

\* the number of places by which the mantissa m > 0 moves to have eight digits
Places(m) ==
  IF m >= 1000000000 THEN -2
  ELSE IF m >= 100000000 THEN -1
  ELSE IF m >= 10000000 THEN 0
  ELSE IF m >= 1000000 THEN 1
  ELSE IF m >= 100000 THEN 2
  ELSE IF m >= 10000 THEN 3
  ELSE IF m >= 1000 THEN 4
  ELSE IF m >= 100 THEN 5
  ELSE IF m >= 10 THEN 6
  ELSE 7

\* s * m * 10^e with the mantissa moved by k places; beyond the range of a double
\* it is an infinity or zero
Shifted(s, m, e, k) ==
  IF e - k > 301 THEN <<s, NaN[2]>>
  ELSE IF e - k < -331 THEN Zero
  ELSE <<s * (IF k < 0 THEN m \div Pow10(-k) ELSE m * Pow10(k)), e - k>>

\* The number s * m * 10^e (s = 1 or -1, 0 <= m < 2^31) with its mantissa brought
\* to eight digits.
Norm(s, m, e) == IF m = 0 THEN Zero ELSE Shifted(s, m, e, Places(m))

\* The decimal literal m * 10^e of the source text.
Dec(m, e) == Norm(IF m < 0 THEN -1 ELSE 1, AbsInt(m), e)

fNeg(x) == IF IsNaN(x) THEN NaN ELSE <<-x[1], x[2]>>
fAbs(x) == IF IsNaN(x) THEN NaN ELSE <<AbsInt(x[1]), x[2]>>

\* The number s * m * 10^e, where m < 2^31 is the whole part of an exact mantissa,
\* rounded to the nearest number of eight digits, as IEEE addition rounds.
Rounded(s, m, e) ==
  IF m >= 1000000000 THEN Norm(s, (m + 50) \div 100, e + 2)
  ELSE IF m >= 100000000 THEN Norm(s, (m + 5) \div 10, e + 1)
  ELSE Norm(s, m, e)

\* the whole part of |lo| * 10 / 10^d, taken from a mantissa when subtracted
\* holds: the part that leaves the mantissa is then rounded up
GuardDigits(lo, d, subtracted) ==
  IF subtracted
  THEN (AbsInt(lo[1]) * 10 + Pow10(d) - 1) \div Pow10(d)
  ELSE (AbsInt(lo[1]) * 10) \div Pow10(d)

\* hi + lo for finite numbers other than zero, the exponent of hi the larger
AddAligned(hi, lo) ==
  IF hi[2] - lo[2] > 9 THEN hi
  ELSE IF Sgn(hi) = Sgn(lo)
       THEN Rounded(Sgn(hi), AbsInt(hi[1]) * 10 + GuardDigits(lo, hi[2] - lo[2], FALSE),
                    hi[2] - 1)
  ELSE IF hi[2] = lo[2]
       THEN Dec(hi[1] * 10 + lo[1] * 10, hi[2] - 1)
  ELSE Rounded(Sgn(hi), AbsInt(hi[1]) * 10 - GuardDigits(lo, hi[2] - lo[2], TRUE),
               hi[2] - 1)

\* a + b
jsAdd(a, b) ==
  IF IsNaN(a) \/ IsNaN(b) THEN NaN
  ELSE IF IsInf(a) THEN (IF IsInf(b) /\ b[1] # a[1] THEN NaN ELSE a)
  ELSE IF IsInf(b) THEN b
  ELSE IF a[1] = 0 THEN b
  ELSE IF b[1] = 0 THEN a
  ELSE AddAligned(IF a[2] >= b[2] THEN a ELSE b, IF a[2] >= b[2] THEN b ELSE a)

\* a - b
jsSub(a, b) == fAdd(a, fNeg(b))

\* a * b
jsMul(a, b) ==
  IF IsNaN(a) \/ IsNaN(b) THEN NaN
  ELSE IF IsInf(a) \/ IsInf(b)
       THEN (IF a[1] = 0 \/ b[1] = 0 THEN NaN ELSE <<Sgn(a) * Sgn(b), NaN[2]>>)
  ELSE IF a[1] = 0 \/ b[1] = 0 THEN Zero
  ELSE LET ma == AbsInt(a[1])
           mb == AbsInt(b[1])
           ah == ma \div 10000
           al == ma % 10000
           bh == mb \div 10000
           bl == mb % 10000
           cross == ah * bl + al * bh
           q == ah * bh * 10 + cross \div 1000
                  + ((cross % 1000) * 10000 + al * bl) \div 10000000
       IN Norm(Sgn(a) * Sgn(b), q, a[2] + b[2] + 7)

\* one digit of the long division by mb: qr is the quotient so far and the
\* remainder times ten
DivisionStep(qr, mb) == <<qr[1] * 10 + qr[2] \div mb, (qr[2] % mb) * 10>>

\* n digits of the long division by mb: the first half of them, then the others
RECURSIVE LongDivision(_, _, _)
LongDivision(qr, mb, n) ==
  IF n = 1 THEN DivisionStep(qr, mb)
  ELSE LET half == LongDivision(qr, mb, n \div 2)
       IN <<half, LongDivision(half, mb, n - n \div 2)>>[2]

\* a / b
jsDiv(a, b) ==
  IF IsNaN(a) \/ IsNaN(b) THEN NaN
  ELSE IF IsInf(a)
       THEN (IF IsInf(b) THEN NaN ELSE <<Sgn(a) * (IF b[1] >= 0 THEN 1 ELSE -1), NaN[2]>>)
  ELSE IF IsInf(b) THEN Zero
  ELSE IF b[1] = 0 THEN (IF a[1] = 0 THEN NaN ELSE <<Sgn(a), NaN[2]>>)
  ELSE IF a[1] = 0 THEN Zero
  ELSE Norm(Sgn(a) * Sgn(b),
            LongDivision(<<AbsInt(a[1]) \div AbsInt(b[1]),
                           (AbsInt(a[1]) % AbsInt(b[1])) * 10>>, AbsInt(b[1]), 8)[1],
            a[2] - b[2] - 8)

\* a < b, a <= b, a > b, a >= b: false whenever an operand is NaN
fLt(a, b) ==
  IF IsNaN(a) \/ IsNaN(b) \/ a = b THEN FALSE
  ELSE IF IsInf(a) THEN a[1] < 0
  ELSE IF IsInf(b) THEN b[1] > 0
  ELSE IF Sgn(a) # Sgn(b) THEN Sgn(a) < Sgn(b)
  ELSE IF a[2] # b[2] THEN (IF Sgn(a) > 0 THEN a[2] < b[2] ELSE a[2] > b[2])
  ELSE a[1] < b[1]
fLe(a, b) == ~IsNaN(a) /\ ~IsNaN(b) /\ (a = b \/ fLt(a, b))
fGt(a, b) == fLt(b, a)
fGe(a, b) == fLe(b, a)

\* Math.max, Math.min
fMax(a, b) == IF IsNaN(a) \/ IsNaN(b) THEN NaN ELSE IF fLt(a, b) THEN b ELSE a
fMin(a, b) == IF IsNaN(a) \/ IsNaN(b) THEN NaN ELSE IF fLt(b, a) THEN b ELSE a

\* the integer i as a number
FromInt(i) == Dec(i, 0)

\* floor of a finite number of magnitude below 10^9, as an integer
FloorInt(x) ==
  IF x[1] = 0 THEN 0
  ELSE IF x[2] >= 0 THEN x[1] * Pow10(x[2])
  ELSE IF x[2] < -8 THEN (IF x[1] > 0 THEN 0 ELSE -1)
  ELSE LET q == AbsInt(x[1]) \div Pow10(-x[2])
           r == AbsInt(x[1]) % Pow10(-x[2])
       IN IF x[1] > 0 THEN q ELSE IF r = 0 THEN -q ELSE -q - 1

\* whether a finite number is an integer, an odd integer
IsInt(y) ==
  y[1] = 0 \/ y[2] >= 0 \/ (y[2] >= -8 /\ AbsInt(y[1]) % Pow10(-y[2]) = 0)
IsOdd(y) ==
  /\ y[1] # 0
  /\ y[2] <= 0
  /\ y[2] >= -8
  /\ AbsInt(y[1]) % Pow10(-y[2]) = 0
  /\ (AbsInt(y[1]) \div Pow10(-y[2])) % 2 = 1

\* ---------------------------------------------------------------------------
\* Math.exp, Math.pow, Math.sqrt, Math.cbrt, Math.sin, Math.cos, Math.atan2
\* ---------------------------------------------------------------------------

Ln2 == <<69314718, -8>>
Ln10 == <<23025850, -7>>
Pi == <<31415926, -7>>
HalfPi == <<15707963, -7>>
TwoPi == <<62831853, -7>>
Sqrt3 == <<17320508, -7>>
PiOver6 == <<52359877, -8>>
Tan15 == <<26794919, -8>>

\* 1/(2k+1), the coefficients of atanh
AtanhCoef ==
  <<<<10000000, -7>>, <<33333333, -8>>, <<20000000, -8>>,
    <<14285714, -8>>, <<11111111, -8>>, <<90909090, -9>>,
    <<76923076, -9>>, <<66666666, -9>>, <<58823529, -9>>,
    <<52631578, -9>>>>
\* 1/k!, the coefficients of exp
ExpCoef ==
  <<<<10000000, -7>>, <<10000000, -7>>, <<50000000, -8>>,
    <<16666666, -8>>, <<41666666, -9>>, <<83333333, -10>>,
    <<13888888, -10>>, <<19841269, -11>>, <<24801587, -12>>,
    <<27557319, -13>>, <<27557319, -14>>, <<25052108, -15>>,
    <<20876756, -16>>>>
\* (-1)^k/(2k+1)!, the coefficients of sin
SinCoef ==
  <<<<10000000, -7>>, <<-16666666, -8>>, <<83333333, -10>>,
    <<-19841269, -11>>, <<27557319, -13>>, <<-25052108, -15>>,
    <<16059043, -17>>, <<-76471635, -20>>>>
\* (-1)^k/(2k)!, the coefficients of cos
CosCoef ==
  <<<<10000000, -7>>, <<-50000000, -8>>, <<41666666, -9>>,
    <<-13888888, -10>>, <<24801587, -12>>, <<-27557319, -14>>,
    <<20876756, -16>>, <<-11470745, -18>>>>
\* (-1)^k/(2k+1), the coefficients of atan
AtanCoef ==
  <<<<10000000, -7>>, <<-33333333, -8>>, <<20000000, -8>>,
    <<-14285714, -8>>, <<11111111, -8>>, <<-90909090, -9>>,
    <<76923076, -9>>, <<-66666666, -9>>, <<58823529, -9>>,
    <<-52631578, -9>>>>

\* Horner's rule, the steps for the coefficients hi down to lo, the upper half of
\* them first: acc is coefs[hi+1] + x*(coefs[hi+2] + ...)
RECURSIVE Horner(_, _, _, _, _)
Horner(coefs, x, lo, hi, acc) ==
  IF lo = hi THEN fAdd(coefs[lo], fMul(acc, x))
  ELSE LET half == Horner(coefs, x, (lo + hi) \div 2 + 1, hi, acc)
       IN <<half, Horner(coefs, x, lo, (lo + hi) \div 2, half)>>[2]

\* coefs[1] + x*(coefs[2] + x*(... + x*coefs[n])) for finite x
Poly(coefs, x) == Horner(coefs, x, 1, Len(coefs) - 1, coefs[Len(coefs)])

\* 2 atanh(y), by its series
LnSeries(y) == fMul(fMul(Two, y), Poly(AtanhCoef, fMul(y, y)))

\* ln(f) for f in [1, 2.5)
LnReduced(f) == LnSeries(fDiv(fSub(f, One), fAdd(f, One)))

\* the power of two that brings the mantissa m into [1, 2.5)
LnHalvings(m) ==
  IF m >= 80000000 THEN 3 ELSE IF m >= 40000000 THEN 2 ELSE IF m >= 20000000 THEN 1 ELSE 0

\* natural logarithm of a finite x > 0
fLn(x) ==
  fAdd(fAdd(fMul(FromInt(x[2] + 7), Ln10), fMul(FromInt(LnHalvings(x[1])), Ln2)),
       LnReduced(fMul(<<x[1], -7>>,
                      <<One, Half, <<25000000, -8>>, <<12500000, -8>>>>[LnHalvings(x[1]) + 1])))

\* v * 10^k
ExpScaled(v, k) == IF v[1] = 0 THEN v ELSE Norm(Sgn(v), AbsInt(v[1]), v[2] + k)

\* exp(r) for r in [0, ln 10), given j = floor(r / ln 2) brought into 0..4
ExpBinary(r, j) ==
  fMul(Poly(ExpCoef, fSub(r, fMul(FromInt(j), Ln2))), FromInt(<<1, 2, 4, 8, 16>>[j + 1]))

\* exp(r) for r in [0, ln 10)
ExpReduced(r) == ExpBinary(r, FloorInt(fMax(Zero, fMin(Dec(4, 0), fDiv(r, Ln2)))))

\* exp(x), given k = floor(x / ln 10)
ExpDecimal(x, k) == ExpScaled(ExpReduced(fSub(x, fMul(FromInt(k), Ln10))), k)

\* Math.exp(x)
MathExp(x) ==
  IF IsNaN(x) THEN NaN
  ELSE IF x = PosInf THEN PosInf
  ELSE IF x = NegInf THEN Zero
  ELSE IF fGt(x, <<71000000, -5>>) THEN PosInf
  ELSE IF fLt(x, <<-74600000, -5>>) THEN Zero
  ELSE ExpDecimal(x, FloorInt(fDiv(x, Ln10)))

\* exp(y * ln(x)) for finite x > 0 and finite y
ExpLn(x, y) == fExp(fMul(y, fLn(x)))

\* p, or -p when negative holds
Negated(negative, p) == IF negative THEN fNeg(p) ELSE p

\* Math.pow(x, y)
MathPow(x, y) ==
  IF y = Zero THEN One
  ELSE IF IsNaN(x) \/ IsNaN(y) THEN NaN
  ELSE IF IsInf(y)
       THEN (IF fAbs(x) = One THEN NaN
             ELSE IF fGt(fAbs(x), One) THEN (IF y[1] > 0 THEN PosInf ELSE Zero)
             ELSE (IF y[1] > 0 THEN Zero ELSE PosInf))
  ELSE IF x = PosInf THEN (IF y[1] > 0 THEN PosInf ELSE Zero)
  ELSE IF x = NegInf
       THEN (IF y[1] > 0 THEN (IF IsOdd(y) THEN NegInf ELSE PosInf) ELSE Zero)
  ELSE IF x[1] = 0 THEN (IF y[1] > 0 THEN Zero ELSE PosInf)
  ELSE IF x[1] < 0 /\ ~IsInt(y) THEN NaN
  ELSE Negated(x[1] < 0 /\ IsOdd(y), ExpLn(fAbs(x), y))

\* Newton's iteration y <- (y + f/y)/2
SqrtStep(f, y) == IF IsSpecial(y) THEN y ELSE fMul(Half, fAdd(y, fDiv(f, y)))

\* n steps of the iteration: the first half of them, then the others
RECURSIVE SqrtIter(_, _, _)
SqrtIter(f, y, n) ==
  IF n = 1 THEN SqrtStep(f, y)
  ELSE LET half == SqrtIter(f, y, n \div 2)
       IN <<half, SqrtIter(f, half, n - n \div 2)>>[2]

\* y * 10^q
RootScaled(s, y, q) == Norm(s, y[1], y[2] + q)

\* Math.sqrt(x)
MathSqrt(x) ==
  IF IsNaN(x) \/ x[1] < 0 THEN NaN
  ELSE IF x = PosInf \/ x[1] = 0 THEN x
  ELSE LET ex == x[2] + 7
           even == ex % 2 = 0
           f == IF even THEN <<x[1], -7>> ELSE <<x[1], -6>>
           q == IF even THEN ex \div 2 ELSE (ex - 1) \div 2
       IN RootScaled(1, SqrtIter(f, IF even THEN <<30000000, -7>> ELSE <<70000000, -7>>, 6),
                     q)

\* Newton's iteration y <- (2y + f/y^2)/3
CbrtStep(f, y) ==
  IF IsSpecial(y) THEN y
  ELSE fDiv(fAdd(fMul(Two, y), fDiv(f, fMul(y, y))), <<30000000, -7>>)

\* n steps of the iteration: the first half of them, then the others
RECURSIVE CbrtIter(_, _, _)
CbrtIter(f, y, n) ==
  IF n = 1 THEN CbrtStep(f, y)
  ELSE LET half == CbrtIter(f, y, n \div 2)
       IN <<half, CbrtIter(f, half, n - n \div 2)>>[2]

\* Math.cbrt(x)
MathCbrt(x) ==
  IF IsSpecial(x) \/ x[1] = 0 THEN x
  ELSE LET ex == x[2] + 7
           r == ex % 3
           q == (ex - r) \div 3
           f == <<AbsInt(x[1]), r - 7>>
           y0 == IF r = 0 THEN Two ELSE IF r = 1 THEN <<40000000, -7>> ELSE <<80000000, -7>>
       IN RootScaled(Sgn(x), CbrtIter(f, y0, 7), q)

\* r, or zero when rounding left it below zero
NonNegative(r) == IF r[1] < 0 THEN Zero ELSE r

\* the angle x (finite) brought into [0, 2 pi)
ReduceAngle(x) ==
  NonNegative(fSub(x, fMul(FromInt(FloorInt(fDiv(x, TwoPi))), TwoPi)))

SinCore(r) == fMul(r, Poly(SinCoef, fMul(r, r)))
CosCore(r) == Poly(CosCoef, fMul(r, r))

\* sin and cos of r in [0, 2 pi)
SinReduced(r) ==
  IF fLe(r, HalfPi) THEN SinCore(r)
  ELSE IF fLe(r, fAdd(Pi, HalfPi)) THEN SinCore(fSub(Pi, r))
  ELSE SinCore(fSub(r, TwoPi))
CosReduced(r) ==
  IF fLe(r, HalfPi) THEN CosCore(r)
  ELSE IF fLe(r, fAdd(Pi, HalfPi)) THEN fNeg(CosCore(fSub(Pi, r)))
  ELSE CosCore(fSub(r, TwoPi))

\* Math.sin(x), Math.cos(x)
MathSin(x) == IF IsSpecial(x) THEN NaN ELSE SinReduced(ReduceAngle(x))
MathCos(x) == IF IsSpecial(x) THEN NaN ELSE CosReduced(ReduceAngle(x))

AtanCore(z) == fMul(z, Poly(AtanCoef, fMul(z, z)))
\* atan of z in [0, 1]
Atan01(z) ==
  IF fLe(z, Tan15) THEN AtanCore(z)
  ELSE fAdd(PiOver6, AtanCore(fDiv(fSub(fMul(z, Sqrt3), One), fAdd(Sqrt3, z))))
\* atan of z >= 0
AtanPos(z) ==
  IF z = PosInf THEN HalfPi
  ELSE IF fLe(z, One) THEN Atan01(z)
  ELSE fSub(HalfPi, Atan01(fDiv(One, z)))

\* the angle of the point (x, y), given a0 = atan |y / x|
Quadrant(y, x, a0) ==
  Negated(y[1] <= 0, IF x[1] < 0 THEN fSub(Pi, a0) ELSE a0)

\* Math.atan2(y, x)
MathAtan2(y, x) ==
  IF IsNaN(x) \/ IsNaN(y) THEN NaN
  ELSE IF y[1] = 0 THEN (IF x[1] >= 0 THEN Zero ELSE Pi)
  ELSE IF x[1] = 0 THEN (IF y[1] > 0 THEN HalfPi ELSE fNeg(HalfPi))
  ELSE IF IsInf(x) /\ IsInf(y)
       THEN Quadrant(y, x, <<78539815, -8>>)
  ELSE Quadrant(y, x, AtanPos(fAbs(fDiv(y, x))))

\* ---------------------------------------------------------------------------
\* CIECAM02: constants
\* ---------------------------------------------------------------------------

\* the values the module gives its constants
ModuleConstants ==
  [M_CAT02 |->
     <<<<Dec(7328, -4), Dec(4296, -4), Dec(-1624, -4)>>,
       <<Dec(-7036, -4), Dec(16975, -4), Dec(61, -4)>>,
       <<Dec(30, -4), Dec(136, -4), Dec(9834, -4)>>>>,
   M_CAT02_INV |->
     <<<<Dec(1096124, -6), Dec(-278869, -6), Dec(182745, -6)>>,
       <<Dec(454369, -6), Dec(473533, -6), Dec(72098, -6)>>,
       <<Dec(-9628, -6), Dec(-5698, -6), Dec(1015326, -6)>>>>,
   M_HPE |->
     <<<<Dec(38971, -5), Dec(68898, -5), Dec(-7868, -5)>>,
       <<Dec(-22981, -5), Dec(118340, -5), Dec(4641, -5)>>,
       <<Zero, Zero, One>>>>,
   M_HPE_INV |->
     <<<<Dec(1910197, -6), Dec(-1112124, -6), Dec(201908, -6)>>,
       <<Dec(370950, -6), Dec(629054, -6), Dec(-8, -6)>>,
       <<Zero, Zero, One>>>>,
   SURROUND_AVERAGE |->
     [F |-> Dec(10, -1), c |-> Dec(69, -2), Nc |-> Dec(10, -1)],
   SURROUND_DIM |->
     [F |-> Dec(9, -1), c |-> Dec(59, -2), Nc |-> Dec(95, -2)],
   SURROUND_DARK |->
     [F |-> Dec(8, -1), c |-> Dec(525, -3), Nc |-> Dec(8, -1)],
   D65_WHITE_POINT |->
     [X |-> Dec(95047, -3), Y |-> Dec(1000, -1), Z |-> Dec(108883, -3)],
   ECCENTRICITY_HUE_ANGLES |->
     <<Dec(2014, -2), Dec(9000, -2), Dec(16425, -2), Dec(23753, -2),
       Dec(38014, -2)>>,
   ECCENTRICITY_VALUES |->
     <<Dec(8, -1), Dec(7, -1), Dec(10, -1), Dec(12, -1), Dec(8, -1)>>,
   ECCENTRICITY_H_VALUES |->
     <<Dec(0, -1), Dec(1000, -1), Dec(2000, -1), Dec(3000, -1), Dec(4000, -1)>>]

M_CAT02 == memory.M_CAT02

\* a faulty M_CAT02_INV: the inverse of the other matrix
M_CAT02_INV_MISTAKEN == memory.M_HPE_INV

M_CAT02_INV == memory.M_CAT02_INV
M_HPE == memory.M_HPE
M_HPE_INV == memory.M_HPE_INV
SURROUND_AVERAGE == memory.SURROUND_AVERAGE
SURROUND_DIM == memory.SURROUND_DIM
SURROUND_DARK == memory.SURROUND_DARK
D65_WHITE_POINT == memory.D65_WHITE_POINT

DEG_TO_RAD == fDiv(Pi, Dec(180, 0))
RAD_TO_DEG == fDiv(Dec(180, 0), Pi)

CONE_RESPONSE_EXPONENT == Dec(42, -2)
CONE_RESPONSE_SCALE == Dec(400, 0)
CONE_RESPONSE_OFFSET == Dec(2713, -2)
POST_ADAPTATION_OFFSET == Dec(1, -1)

ECCENTRICITY_HUE_ANGLES == memory.ECCENTRICITY_HUE_ANGLES
ECCENTRICITY_VALUES == memory.ECCENTRICITY_VALUES
ECCENTRICITY_H_VALUES == memory.ECCENTRICITY_H_VALUES

\* ---------------------------------------------------------------------------
\* CIECAM02: helpers
\* ---------------------------------------------------------------------------

\* Effect.succeed / Effect.fail values
Success(v) == [tag |-> "Success", value |-> v]
Failure(e) == [tag |-> "Failure", error |-> e]
None == [tag |-> "None"]
Undefined == [tag |-> "undefined"]
CIECAM02Error(msg) == [errTag |-> "CIECAM02Error", message |-> msg]

multiplyMatrixVec(m, v) ==
  <<fAdd(fAdd(fMul(m[1][1], v[1]), fMul(m[1][2], v[2])), fMul(m[1][3], v[3])),
    fAdd(fAdd(fMul(m[2][1], v[1]), fMul(m[2][2], v[2])), fMul(m[2][3], v[3])),
    fAdd(fAdd(fMul(m[3][1], v[1]), fMul(m[3][2], v[2])), fMul(m[3][3], v[3]))>>

\* a faulty variant of nonlinearAdaptation, without the post-adaptation offset
nonlinearAdaptationNoOffset(component, Fl) ==
  LET sign == IF fGe(component, Zero) THEN One ELSE fNeg(One)
      abs == fAbs(component)
      p == fPow(fDiv(fMul(Fl, abs), Dec(100, 0)), CONE_RESPONSE_EXPONENT)
  IN InOrder(<<sign, abs, p>>,
             fDiv(fMul(sign, fMul(CONE_RESPONSE_SCALE, p)), fAdd(p, CONE_RESPONSE_OFFSET)))

\* the value nonlinearAdaptation returns, given its sign and p
compressedResponse(sign, p) ==
  fAdd(fDiv(fMul(sign, fMul(CONE_RESPONSE_SCALE, p)), fAdd(p, CONE_RESPONSE_OFFSET)),
       POST_ADAPTATION_OFFSET)

nonlinearAdaptation(component, Fl) ==
  compressedResponse(IF fGe(component, Zero) THEN One ELSE fNeg(One),
                     fPow(fDiv(fMul(Fl, fAbs(component)), Dec(100, 0)),
                          CONE_RESPONSE_EXPONENT))

\* a faulty variant of inverseNonlinearAdaptation, without the power 1 / 0.42
inverseNonlinearAdaptationNoPower(adapted, Fl) ==
  LET val == fSub(adapted, POST_ADAPTATION_OFFSET)
      sign == IF fGe(val, Zero) THEN One ELSE fNeg(One)
      abs == fAbs(val)
      p == fDiv(fMul(CONE_RESPONSE_OFFSET, abs), fSub(CONE_RESPONSE_SCALE, abs))
  IN InOrder(<<val, sign, abs, p>>, fMul(fMul(sign, fDiv(Dec(100, 0), Fl)), p))

\* a faulty variant of expandedResponse, without the sign of val
expandedResponseUnsigned(val, Fl) ==
  fMul(fDiv(Dec(100, 0), Fl),
       fPow(fDiv(fMul(CONE_RESPONSE_OFFSET, fAbs(val)),
                 fSub(CONE_RESPONSE_SCALE, fAbs(val))),
            fDiv(One, CONE_RESPONSE_EXPONENT)))

\* the value inverseNonlinearAdaptation returns, given its val
expandedResponse(val, Fl) ==
  fMul(fMul(IF fGe(val, Zero) THEN One ELSE fNeg(One), fDiv(Dec(100, 0), Fl)),
       fPow(fDiv(fMul(CONE_RESPONSE_OFFSET, fAbs(val)),
                 fSub(CONE_RESPONSE_SCALE, fAbs(val))),
            fDiv(One, CONE_RESPONSE_EXPONENT)))

inverseNonlinearAdaptation(adapted, Fl) ==
  expandedResponse(fSub(adapted, POST_ADAPTATION_OFFSET), Fl)

\* a faulty variant of segmentIndex, with Arr.findFirstIndex for Arr.findLastIndex
segmentIndexFirst(hp) ==
  LET found == {i \in 0..3 : fGe(hp, ECCENTRICITY_HUE_ANGLES[i + 1])}
  IN IF found = {} THEN [tag |-> "None"]
     ELSE [tag |-> "Some", value |-> CHOOSE i \in found : \A j \in found : i <= j]

\* Arr.findLastIndex over Arr.range(0, 3), with the default of segment 0;
\* the table is indexed from 1 here, so segment i of the code is i + 1
segmentIndex(hp) ==
  LET found == {i \in 0..3 : fGe(hp, ECCENTRICITY_HUE_ANGLES[i + 1])}
  IN IF found = {} THEN None
     ELSE [tag |-> "Some", value |-> CHOOSE i \in found : \A j \in found : j <= i]

\* eccentricityFactor from the declaration of hi on
eccentricitySegment(hp, i) ==
  LET hi == ECCENTRICITY_HUE_ANGLES[i + 1]
      ei == ECCENTRICITY_VALUES[i + 1]
      Hi == ECCENTRICITY_H_VALUES[i + 1]
      hiNext == ECCENTRICITY_HUE_ANGLES[i + 2]
      eiNext == ECCENTRICITY_VALUES[i + 2]
      HiNext == ECCENTRICITY_H_VALUES[i + 2]
      t == fDiv(fSub(hp, hi), ei)
      denominator == fAdd(t, fDiv(fSub(hiNext, hp), eiNext))
  IN IF denominator = Zero THEN ei
     ELSE fMul(fDiv(fAdd(Hi, fDiv(fMul(Dec(100, 0), t), denominator)), Dec(100, 0)),
               fDiv(fMul(eiNext, ei),
                    fAdd(fDiv(fMul(eiNext, fSub(hp, hi)), fSub(HiNext, Hi)),
                         fDiv(fMul(ei, fSub(hiNext, hp)), fSub(HiNext, Hi)))))

\* eccentricityFactor from the declaration of segmentIndex on
eccentricityFrom(hp) ==
  LET seg == segmentIndex(hp)
  IN eccentricitySegment(hp, IF seg.tag = "Some" THEN seg.value ELSE 0)

eccentricityFactor(h) ==
  eccentricityFrom(IF fLt(h, ECCENTRICITY_HUE_ANGLES[1]) THEN fAdd(h, Dec(360, 0)) ELSE h)

\* the constants hp, segmentIndex and i that eccentricityFactor declares for h
eccentricityLocals(h) ==
  LET hp == IF fLt(h, ECCENTRICITY_HUE_ANGLES[1]) THEN fAdd(h, Dec(360, 0)) ELSE h
      seg == segmentIndex(hp)
  IN [hp |-> hp, segmentIndex |-> seg, i |-> IF seg.tag = "Some" THEN seg.value ELSE 0]

\* a faulty variant of resolveSurround, with the presets of dim and dark exchanged
resolveSurroundExchanged(condition) ==
  IF condition = "average" THEN SURROUND_AVERAGE
  ELSE IF condition = "dim" THEN SURROUND_DARK
  ELSE IF condition = "dark" THEN SURROUND_DIM
  ELSE Undefined

\* the switch has no default: any other label yields undefined
resolveSurround(condition) ==
  IF condition = "average" THEN SURROUND_AVERAGE
  ELSE IF condition = "dim" THEN SURROUND_DIM
  ELSE IF condition = "dark" THEN SURROUND_DARK
  ELSE Undefined

\* (D * whitePoint.Y / whiteRgb[i] + 1 - D), the von Kries scaling of one channel
adaptScale(D, whitePoint, w) == fSub(fAdd(fDiv(fMul(D, whitePoint.Y), w), One), D)

\* 2 * Ra + Ga + (1 / 20) * Ba - 0.305
achromaticSum(Ra, Ga, Ba) ==
  fSub(fAdd(fAdd(fMul(Two, Ra), Ga), fMul(fDiv(One, Dec(20, 0)), Ba)), Dec(305, -3))

\* ---------------------------------------------------------------------------
\* CIECAM02: public API
\* ---------------------------------------------------------------------------
\* A function body is a sequence of const declarations.  env holds the
\* parameters and the constants declared so far; the i-th statement adds the
\* constants it declares.

\* the i-th statement of makeViewingConditions' try block, after the resolution
\* of the surround
viewingConditionsStatement(i, env) ==
  CASE i = 1 -> env @@ [k |-> fDiv(One, fAdd(fMul(Dec(5, 0), env.La), One))]
    [] i = 2 -> env @@ [k4 |-> fMul(fMul(fMul(env.k, env.k), env.k), env.k)]
    [] i = 3 ->
         env @@ [Fl |-> fAdd(fMul(fMul(Dec(2, -1), env.k4), fMul(Dec(5, 0), env.La)),
                             fMul(fMul(Dec(1, -1), fPow(fSub(One, env.k4), Two)),
                                  fPow(fMul(Dec(5, 0), env.La), fDiv(One, Dec(3, 0)))))]
    [] i = 4 -> env @@ [n |-> fDiv(env.Yb, env.whitePoint.Y)]
    [] i = 5 -> env @@ [Nbb |-> fMul(Dec(725, -3), fPow(fDiv(One, env.n), Dec(2, -1)))]
    [] i = 6 -> env @@ [Ncb |-> env.Nbb]
    [] i = 7 -> env @@ [z |-> fAdd(Dec(148, -2), fSqrt(env.n))]
    [] i = 8 ->
         env @@ [D |-> fMul(env.surroundParams.F,
                            fSub(One, fMul(fDiv(One, Dec(36, -1)),
                                           fExp(fDiv(fSub(fNeg(env.La), Dec(42, 0)),
                                                     Dec(92, 0))))))]
    [] i = 9 -> env @@ [Dclamp |-> fMax(Zero, fMin(One, env.D))]
    [] i = 10 ->
         env @@ [whiteRgb |->
                   Call("multiplyMatrixVec",
                        <<M_CAT02, <<env.whitePoint.X, env.whitePoint.Y, env.whitePoint.Z>>>>)]
    [] i = 11 ->
         env @@ [adaptedWhiteRgc |->
                   <<fMul(adaptScale(env.Dclamp, env.whitePoint, env.whiteRgb[1]),
                          env.whiteRgb[1]),
                     fMul(adaptScale(env.Dclamp, env.whitePoint, env.whiteRgb[2]),
                          env.whiteRgb[2]),
                     fMul(adaptScale(env.Dclamp, env.whitePoint, env.whiteRgb[3]),
                          env.whiteRgb[3])>>]
    [] i = 12 ->
         env @@ [whiteRgbHpe |->
                   Call("multiplyMatrixVec",
                        <<M_HPE,
                          Call("multiplyMatrixVec", <<M_CAT02_INV, env.adaptedWhiteRgc>>)>>)]
    [] i = 13 ->
         env @@ [whiteRa |-> Call("nonlinearAdaptation", <<env.whiteRgbHpe[1], env.Fl>>)]
    [] i = 14 ->
         env @@ [whiteGa |-> Call("nonlinearAdaptation", <<env.whiteRgbHpe[2], env.Fl>>)]
    [] i = 15 ->
         env @@ [whiteBa |-> Call("nonlinearAdaptation", <<env.whiteRgbHpe[3], env.Fl>>)]
    [] i = 16 ->
         env @@ [Aw |-> fMul(achromaticSum(env.whiteRa, env.whiteGa, env.whiteBa), env.Nbb)]

\* the statements lo to hi of the try block: the first half of them, then
\* the others
RECURSIVE viewingConditionsBody(_, _, _)
viewingConditionsBody(lo, hi, env) ==
  IF lo = hi THEN viewingConditionsStatement(lo, env)
  ELSE LET half == viewingConditionsBody(lo, (lo + hi) \div 2, env)
       IN <<half, viewingConditionsBody((lo + hi) \div 2 + 1, hi, half)>>[2]

\* a faulty variant of viewingConditionsReturn, in which the degree of adaptation
\* is weighted by the background
viewingConditionsReturnWeighted(env) ==
  [La |-> env.La, Yb |-> env.Yb, surround |-> env.surroundParams, k |-> env.k,
   Fl |-> env.Fl, n |-> env.n, Nbb |-> env.Nbb, Ncb |-> env.Ncb, z |-> env.z,
   D |-> fMul(env.Dclamp, env.n), Aw |-> env.Aw, adaptedWhiteRgc |-> env.adaptedWhiteRgc]

\* the object the try block returns
viewingConditionsReturn(env) ==
  [La |-> env.La, Yb |-> env.Yb, surround |-> env.surroundParams, k |-> env.k,
   Fl |-> env.Fl, n |-> env.n, Nbb |-> env.Nbb, Ncb |-> env.Ncb, z |-> env.z,
   D |-> env.Dclamp, Aw |-> env.Aw, adaptedWhiteRgc |-> env.adaptedWhiteRgc]

\* the body of makeViewingConditions' try block, given the resolved surround
viewingConditionsOf(La, Yb, whitePoint, surroundParams) ==
  viewingConditionsReturn(
    viewingConditionsBody(1, 16, [La |-> La, Yb |-> Yb, whitePoint |-> whitePoint,
                               surroundParams |-> surroundParams]))

\* the value of makeViewingConditions, given the resolved surround
viewingConditionsFor(La, Yb, whitePoint, surroundParams) ==
  IF surroundParams = Undefined
  THEN Failure(CIECAM02Error("Failed to compute viewing conditions"))
  ELSE Success(viewingConditionsOf(La, Yb, whitePoint, surroundParams))

\* the surround label of a call that gives none
Omitted == "undefined"

\* the parameter surround with its default, "average"
surroundOrDefault(surround) == IF surround = Omitted THEN "average" ELSE surround

\* Effect.try: the only statement that can throw is the read of surroundParams.F
\* when resolveSurround returned undefined; arithmetic never throws
makeViewingConditions(La, Yb, whitePoint, surround) ==
  viewingConditionsFor(La, Yb, whitePoint, resolveSurround(surroundOrDefault(surround)))

\* the i-th statement of forward's try block
forwardStatement(i, env) ==
  CASE i = 1 ->
         env @@ [Fl |-> env.conditions.Fl, Nbb |-> env.conditions.Nbb,
                 Ncb |-> env.conditions.Ncb, z |-> env.conditions.z,
                 Aw |-> env.conditions.Aw, D |-> env.conditions.D,
                 surround |-> env.conditions.surround]
    [] i = 2 ->
         env @@ [rgb |-> Call("multiplyMatrixVec",
                              <<M_CAT02, <<env.xyz.X, env.xyz.Y, env.xyz.Z>>>>)]
    [] i = 3 ->
         env @@ [whiteRgb |->
                   Call("multiplyMatrixVec",
                        <<M_CAT02, <<env.whitePoint.X, env.whitePoint.Y, env.whitePoint.Z>>>>)]
    [] i = 4 ->
         env @@ [rgc |->
                   <<fMul(adaptScale(env.D, env.whitePoint, env.whiteRgb[1]), env.rgb[1]),
                     fMul(adaptScale(env.D, env.whitePoint, env.whiteRgb[2]), env.rgb[2]),
                     fMul(adaptScale(env.D, env.whitePoint, env.whiteRgb[3]), env.rgb[3])>>]
    [] i = 5 ->
         env @@ [rgbHpe |->
                   Call("multiplyMatrixVec",
                        <<M_HPE, Call("multiplyMatrixVec", <<M_CAT02_INV, env.rgc>>)>>)]
    [] i = 6 -> env @@ [Ra |-> Call("nonlinearAdaptation", <<env.rgbHpe[1], env.Fl>>)]
    [] i = 7 -> env @@ [Ga |-> Call("nonlinearAdaptation", <<env.rgbHpe[2], env.Fl>>)]
    [] i = 8 -> env @@ [Ba |-> Call("nonlinearAdaptation", <<env.rgbHpe[3], env.Fl>>)]
    [] i = 9 ->
         env @@ [a |-> fAdd(fSub(env.Ra, fDiv(fMul(Dec(12, 0), env.Ga), Dec(11, 0))),
                            fDiv(env.Ba, Dec(11, 0)))]
    [] i = 10 ->
         env @@ [b |-> fDiv(fSub(fAdd(env.Ra, env.Ga), fMul(Two, env.Ba)), Dec(9, 0))]
    [] i = 11 -> env @@ [h0 |-> fMul(fAtan2(env.b, env.a), RAD_TO_DEG)]
    [] i = 12 ->
         env @@ [h |-> IF fLt(env.h0, Zero) THEN fAdd(env.h0, Dec(360, 0)) ELSE env.h0]
    [] i = 13 -> env @@ [et |-> Call("eccentricityFactor", <<env.h>>)]
    [] i = 14 -> env @@ [A |-> fMul(achromaticSum(env.Ra, env.Ga, env.Ba), env.Nbb)]
    [] i = 15 ->
         env @@ [J |-> fMul(Dec(100, 0),
                            fPow(fDiv(env.A, env.Aw), fMul(env.surround.c, env.z)))]
    [] i = 16 ->
         env @@ [Q |-> fMul(fMul(fMul(fDiv(Dec(4, 0), env.surround.c),
                                      fPow(fDiv(env.J, Dec(100, 0)), Half)),
                                 fAdd(env.Aw, Dec(4, 0))),
                            fPow(env.Fl, Dec(25, -2)))]
    [] i = 17 ->
         env @@ [t |-> fDiv(fMul(fMul(fMul(fMul(fDiv(Dec(50000, 0), Dec(13, 0)),
                                                env.surround.Nc),
                                           env.Ncb),
                                      env.et),
                                 fSqrt(fAdd(fMul(env.a, env.a), fMul(env.b, env.b)))),
                            fAdd(fAdd(env.Ra, env.Ga),
                                 fDiv(fMul(Dec(21, 0), env.Ba), Dec(20, 0))))]
    [] i = 18 ->
         env @@ [C |-> fMul(fMul(fPow(env.t, Dec(9, -1)),
                                 fPow(fDiv(env.J, Dec(100, 0)), Half)),
                            fSub(Dec(164, -2), fPow(Dec(29, -2), env.conditions.n)))]
    [] i = 19 -> env @@ [M |-> fMul(env.C, fPow(env.Fl, Dec(25, -2)))]
    [] i = 20 -> env @@ [s |-> fMul(Dec(100, 0), fPow(fDiv(env.M, env.Q), Half))]

\* the statements lo to hi of forward's try block: the first half of them, then
\* the others
RECURSIVE forwardBody(_, _, _)
forwardBody(lo, hi, env) ==
  IF lo = hi THEN forwardStatement(lo, env)
  ELSE LET half == forwardBody(lo, (lo + hi) \div 2, env)
       IN <<half, forwardBody((lo + hi) \div 2 + 1, hi, half)>>[2]

\* the object forward's try block returns
forwardReturn(env) ==
  [J |-> env.J, C |-> env.C, h |-> env.h, M |-> env.M, s |-> env.s, Q |-> env.Q]

\* forward: Effect.try around arithmetic that never throws
forward(xyz, whitePoint, conditions) ==
  Success(forwardReturn(forwardBody(1, 20, [xyz |-> xyz, whitePoint |-> whitePoint,
                                         conditions |-> conditions])))

\* the i-th statement of inverse's try block
inverseStatement(i, env) ==
  CASE i = 1 ->
         env @@ [J |-> env.correlates.J, C |-> env.correlates.C, h |-> env.correlates.h]
    [] i = 2 ->
         env @@ [Fl |-> env.conditions.Fl, Nbb |-> env.conditions.Nbb,
                 Ncb |-> env.conditions.Ncb, z |-> env.conditions.z,
                 Aw |-> env.conditions.Aw, D |-> env.conditions.D,
                 surround |-> env.conditions.surround, n |-> env.conditions.n]
    [] i = 3 ->
         env @@ [A |-> fMul(env.Aw, fPow(fDiv(env.J, Dec(100, 0)),
                                         fDiv(One, fMul(env.surround.c, env.z))))]
    [] i = 4 ->
         env @@ [t |-> fPow(fDiv(env.C,
                                 fMul(fPow(fDiv(env.J, Dec(100, 0)), Half),
                                      fSub(Dec(164, -2), fPow(Dec(29, -2), env.n)))),
                            fDiv(One, Dec(9, -1)))]
    [] i = 5 -> env @@ [et |-> Call("eccentricityFactor", <<env.h>>)]
    [] i = 6 -> env @@ [hRad |-> fMul(env.h, DEG_TO_RAD)]
    [] i = 7 -> env @@ [cosH |-> fCos(env.hRad)]
    [] i = 8 -> env @@ [sinH |-> fSin(env.hRad)]
    [] i = 9 ->
         env @@ [p1 |-> fMul(fMul(fMul(fDiv(Dec(50000, 0), Dec(13, 0)), env.surround.Nc),
                                  env.Ncb),
                             env.et)]
    [] i = 10 -> env @@ [p2 |-> fAdd(fDiv(env.A, env.Nbb), Dec(305, -3))]
    [] i = 11 ->
         env @@ [gamma |->
                   fDiv(fMul(fMul(Dec(23, 0), fAdd(env.p2, Dec(305, -3))), env.t),
                        fAdd(fAdd(fMul(Dec(23, 0), env.p1),
                                  fMul(fMul(Dec(11, 0), env.t), env.cosH)),
                             fMul(fMul(Dec(108, 0), env.t), env.sinH)))]
    [] i = 12 -> env @@ [a |-> fMul(env.gamma, env.cosH)]
    [] i = 13 -> env @@ [b |-> fMul(env.gamma, env.sinH)]
    [] i = 14 ->
         env @@ [Ra |-> fDiv(fAdd(fAdd(fMul(Dec(460, 0), env.p2), fMul(Dec(451, 0), env.a)),
                                  fMul(Dec(288, 0), env.b)),
                             Dec(1403, 0))]
    [] i = 15 ->
         env @@ [Ga |-> fDiv(fSub(fSub(fMul(Dec(460, 0), env.p2), fMul(Dec(891, 0), env.a)),
                                  fMul(Dec(261, 0), env.b)),
                             Dec(1403, 0))]
    [] i = 16 ->
         env @@ [Ba |-> fDiv(fSub(fSub(fMul(Dec(460, 0), env.p2), fMul(Dec(220, 0), env.a)),
                                  fMul(Dec(6300, 0), env.b)),
                             Dec(1403, 0))]
    [] i = 17 ->
         env @@ [rgbHpe |-> <<Call("inverseNonlinearAdaptation", <<env.Ra, env.Fl>>),
                              Call("inverseNonlinearAdaptation", <<env.Ga, env.Fl>>),
                              Call("inverseNonlinearAdaptation", <<env.Ba, env.Fl>>)>>]
    [] i = 18 ->
         env @@ [rgc |->
                   Call("multiplyMatrixVec",
                        <<M_CAT02, Call("multiplyMatrixVec", <<M_HPE_INV, env.rgbHpe>>)>>)]
    [] i = 19 ->
         env @@ [whiteRgb |->
                   Call("multiplyMatrixVec",
                        <<M_CAT02, <<env.whitePoint.X, env.whitePoint.Y, env.whitePoint.Z>>>>)]
    [] i = 20 ->
         env @@ [rgb |->
                   <<fDiv(env.rgc[1], adaptScale(env.D, env.whitePoint, env.whiteRgb[1])),
                     fDiv(env.rgc[2], adaptScale(env.D, env.whitePoint, env.whiteRgb[2])),
                     fDiv(env.rgc[3], adaptScale(env.D, env.whitePoint, env.whiteRgb[3]))>>]
    [] i = 21 -> env @@ [xyzVec |-> Call("multiplyMatrixVec", <<M_CAT02_INV, env.rgb>>)]

\* the statements lo to hi of inverse's try block: the first half of them, then
\* the others
RECURSIVE inverseBody(_, _, _)
inverseBody(lo, hi, env) ==
  IF lo = hi THEN inverseStatement(lo, env)
  ELSE LET half == inverseBody(lo, (lo + hi) \div 2, env)
       IN <<half, inverseBody((lo + hi) \div 2 + 1, hi, half)>>[2]

\* the object inverse's try block returns
inverseReturn(env) == [X |-> env.xyzVec[1], Y |-> env.xyzVec[2], Z |-> env.xyzVec[3]]

\* inverse: Effect.try around arithmetic that never throws
inverse(correlates, whitePoint, conditions) ==
  Success(inverseReturn(inverseBody(1, 21, [correlates |-> correlates,
                                         whitePoint |-> whitePoint,
                                         conditions |-> conditions])))

XYZ(x, y, z) == [X |-> x, Y |-> y, Z |-> z]

\* ---------------------------------------------------------------------------
\* Contrast compensation: colour space conversion (culori)
\* ---------------------------------------------------------------------------

OKLCH(l, c, h, alpha) == [l |-> l, c |-> c, h |-> h, alpha |-> alpha]

\* Math.sign(c) || 1
signOr1(c) == IF fLt(c, Zero) THEN fNeg(One) ELSE One

\* culori's sRGB transfer function and its inverse, for one channel
lrgbToRgb(c) ==
  IF fGt(fAbs(c), Dec(31308, -7))
  THEN fMul(signOr1(c),
            fSub(fMul(Dec(1055, -3), fPow(fAbs(c), fDiv(One, Dec(24, -1)))), Dec(55, -3)))
  ELSE fMul(c, Dec(1292, -2))
rgbToLrgb(c) ==
  IF fLe(fAbs(c), Dec(4045, -5)) THEN fDiv(c, Dec(1292, -2))
  ELSE fMul(signOr1(c), fPow(fDiv(fAdd(fAbs(c), Dec(55, -3)), Dec(1055, -3)), Dec(24, -1)))

\* culori convertLrgbToRgb and convertRgbToLrgb
convertLrgbToRgb(lrgb) ==
  <<Call("lrgbToRgb", <<lrgb[1]>>), Call("lrgbToRgb", <<lrgb[2]>>),
    Call("lrgbToRgb", <<lrgb[3]>>)>>
convertRgbToLrgb(rgb) ==
  <<Call("rgbToLrgb", <<rgb[1]>>), Call("rgbToLrgb", <<rgb[2]>>),
    Call("rgbToLrgb", <<rgb[3]>>)>>

\* a * x + b * y + c * z
lin3(a, x, b, y, c, z) == fAdd(fAdd(fMul(a, x), fMul(b, y)), fMul(c, z))

\* x * x * x
cube(x) == fMul(fMul(x, x), x)

\* culori convertLchToLab: <<l, a, b>> of an OKLCH colour
convertLchToLab(color) ==
  LET hRad == fMul(fDiv(color.h, Dec(180, 0)), Pi)
      chromatic == color.c # Zero /\ ~IsNaN(color.c)
  IN <<color.l,
       IF chromatic THEN fMul(color.c, fCos(hRad)) ELSE Zero,
       IF chromatic THEN fMul(color.c, fSin(hRad)) ELSE Zero>>

\* culori convertOklabToLrgb, from the cone responses L, M, S on
lmsToLrgb(L, M, S) ==
  <<lin3(Dec(407674163, -8), L, Dec(-330771153, -8), M, Dec(230969903, -9), S),
    lin3(Dec(-126843797, -8), L, Dec(260975734, -8), M, Dec(-341319376, -9), S),
    lin3(Dec(-419607613, -11), L, Dec(-703418617, -9), M, Dec(170761469, -8), S)>>

\* culori convertOklabToLrgb
convertOklabToLrgb(lab) ==
  lmsToLrgb(
    cube(lin3(One, lab[1], Dec(396337777, -9), lab[2], Dec(215803757, -9), lab[3])),
    cube(lin3(One, lab[1], Dec(-105561345, -9), lab[2], Dec(-638541728, -10), lab[3])),
    cube(lin3(One, lab[1], Dec(-894841775, -10), lab[2], Dec(-129148554, -8), lab[3])))

\* culori convertLrgbToOklab, from the cube roots L, M, S on
lmsToOklab(L, M, S) ==
  <<lin3(Dec(210454268, -9), L, Dec(793617774, -9), M, Dec(-407204301, -11), S),
    lin3(Dec(197799853, -8), L, Dec(-242859224, -8), M, Dec(450593709, -9), S),
    lin3(Dec(259040424, -10), L, Dec(782771712, -9), M, Dec(-808675754, -9), S)>>

\* culori convertLrgbToOklab
convertLrgbToOklab(lrgb) ==
  lmsToOklab(
    fCbrt(lin3(Dec(412221469, -9), lrgb[1], Dec(536332537, -9), lrgb[2],
               Dec(514459932, -10), lrgb[3])),
    fCbrt(lin3(Dec(211903495, -9), lrgb[1], Dec(680699550, -9), lrgb[2],
               Dec(107396953, -9), lrgb[3])),
    fCbrt(lin3(Dec(883024591, -10), lrgb[1], Dec(281718839, -9), lrgb[2],
               Dec(629978701, -9), lrgb[3])))

\* culori convertRgbToXyz65, from the linear r, g, b on
lrgbToXyz65(lin) ==
  <<lin3(Dec(412390799, -9), lin[1], Dec(357584339, -9), lin[2], Dec(180480788, -9), lin[3]),
    lin3(Dec(212639005, -9), lin[1], Dec(715168678, -9), lin[2], Dec(721923153, -10), lin[3]),
    lin3(Dec(193308187, -10), lin[1], Dec(119194779, -9), lin[2], Dec(950532152, -9), lin[3])>>

\* culori.xyz65 of an OKLCH colour: oklch -> oklab -> lrgb -> rgb -> lrgb -> xyz65
culoriXyz65(color) ==
  Call("lrgbToXyz65",
       <<Call("convertRgbToLrgb",
              <<Call("convertLrgbToRgb",
                     <<Call("convertOklabToLrgb",
                            <<Call("convertLchToLab", <<color>>)>>)>>)>>)>>)

\* culori convertXyz65ToRgb, up to the linear r, g, b
xyz65ToLrgb(xyz) ==
  <<lin3(Dec(324096994, -8), xyz[1], Dec(-153738317, -8), xyz[2], Dec(-498610760, -9), xyz[3]),
    lin3(Dec(-969243636, -9), xyz[1], Dec(187596750, -8), xyz[2], Dec(415550574, -10), xyz[3]),
    lin3(Dec(556300796, -10), xyz[1], Dec(-203976958, -9), xyz[2], Dec(105697151, -8), xyz[3])>>

\* culori normalizeHue: h % 360, plus 360 when negative (h within one turn here)
normalizeHue(h) == IF fLt(h, Zero) THEN fAdd(h, Dec(360, 0)) ELSE h

\* culori convertLabToLch, from the chroma c on; h is Undefined for a colour
\* without chroma
lchOf(l, a, b, c) ==
  [l |-> l, c |-> c,
   h |-> IF c # Zero /\ ~IsNaN(c)
         THEN normalizeHue(fMul(fDiv(fAtan2(b, a), Pi), Dec(180, 0)))
         ELSE Undefined]

\* culori convertLabToLch
convertLabToLch(lab) ==
  lchOf(lab[1], lab[2], lab[3], fSqrt(fAdd(fMul(lab[2], lab[2]), fMul(lab[3], lab[3]))))

\* culori convertRgbToOklab, from the Oklab of the linear r, g, b on: a colour
\* with r = g = b has a = b = 0
grayOklab(rgb, lab) ==
  IF rgb[1] = rgb[3] /\ rgb[3] = rgb[2] /\ ~IsNaN(rgb[1]) THEN <<lab[1], Zero, Zero>> ELSE lab

\* culori convertRgbToOklab
convertRgbToOklab(rgb) ==
  grayOklab(rgb, Call("convertLrgbToOklab", <<Call("convertRgbToLrgb", <<rgb>>)>>))

\* culori.oklch of an xyz65 colour: xyz65 -> lrgb -> rgb -> lrgb -> oklab -> oklch
culoriOklch(xyz) ==
  Call("convertLabToLch",
       <<Call("convertRgbToOklab",
              <<Call("convertLrgbToRgb", <<Call("xyz65ToLrgb", <<xyz>>)>>)>>)>>)

\* the object oklchToXyz65 returns, given culori's xyz
scaledXyz(xyz) ==
  XYZ(fMul(xyz[1], Dec(100, 0)), fMul(xyz[2], Dec(100, 0)), fMul(xyz[3], Dec(100, 0)))

\* a faulty variant of oklchToXyz65, which leaves culori's 0-1 scale as it is
oklchToXyz65Unscaled(color) ==
  LET xyz == Call("culoriXyz65", <<color>>) IN XYZ(xyz[1], xyz[2], xyz[3])

oklchToXyz65(color) == scaledXyz(Call("culoriXyz65", <<color>>))

\* the object xyz65ToOklch returns, given culori's oklch
boundedOklch(oklch) ==
  OKLCH(fMax(Zero, fMin(One, oklch.l)), fMax(Zero, oklch.c),
        IF oklch.h = Undefined THEN Zero ELSE oklch.h, One)

xyz65ToOklch(xyz) ==
  boundedOklch(Call("culoriOklch",
                    <<<<fDiv(xyz.X, Dec(100, 0)), fDiv(xyz.Y, Dec(100, 0)),
                        fDiv(xyz.Z, Dec(100, 0))>>>>))

\* ---------------------------------------------------------------------------
\* Contrast compensation
\* ---------------------------------------------------------------------------

ContrastCompensationError(msg, cause) ==
  [errTag |-> "ContrastCompensationError", message |-> msg, cause |-> cause]

SCREEN_ADAPTING_LUMINANCE == Dec(64, 0)

\* the number of halvings of the chroma interval in the gamut clamp
ClampSteps == 8

\* whether linear r, g, b lie in [0, 1], up to the rounding of the conversion
inUnitCube(lrgb) ==
  \A i \in 1..3 : fGe(lrgb[i], Dec(-1, -6)) /\ fLe(lrgb[i], Dec(1000001, -6))

\* whether the colour is inside the sRGB gamut
displayable(color) ==
  inUnitCube(Call("convertOklabToLrgb", <<Call("convertLchToLab", <<color>>)>>))

\* the largest displayable chroma found in [lo, hi] by n halvings
RECURSIVE clampChroma(_, _, _, _)
clampChroma(color, lo, hi, n) ==
  InOrder(<<lo, hi>>,
          IF n = 0 \/ IsNaN(lo) \/ IsNaN(hi) THEN lo
          ELSE IF Call("displayable", <<[color EXCEPT !.c = fMul(Half, fAdd(lo, hi))]>>)
               THEN clampChroma(color, fMul(Half, fAdd(lo, hi)), hi, n - 1)
               ELSE clampChroma(color, lo, fMul(Half, fAdd(lo, hi)), n - 1))

\* base, its chroma brought down into the sRGB gamut
chromaClamped(base) ==
  IF Call("displayable", <<base>>) THEN base
  ELSE [base EXCEPT !.c = clampChroma(base, Zero, base.c, ClampSteps)]

\* clampToGamut of color.js: lightness into [0, 1], chroma to at least 0 and down
\* into the sRGB gamut, alpha reset to 1; it fails only when the colour is not finite
clampToGamut(color) ==
  IF ~(IsFinite(color.l) /\ IsFinite(color.c) /\ IsFinite(color.h))
  THEN Failure([errTag |-> "ColorError", message |-> "Failed to clamp color to gamut"])
  ELSE Success(chromaClamped(OKLCH(fMax(Zero, fMin(One, color.l)), fMax(Zero, color.c),
                                   color.h, One)))

\* const name = yield* effect: the generator ends with the failure of a failed
\* effect and goes on with the value of a successful one
yielded(name, effect, env) ==
  IF effect.tag = "Failure" THEN [env EXCEPT !.exit = effect]
  ELSE env @@ (name :> effect.value)

\* the i-th statement of compensateForBackground before the gamut clamp; a yield*
\* of a failed effect ends the generator with that failure
compensateStatement(i, env) ==
  IF env.exit # None THEN env
  ELSE CASE i = 1 -> env @@ [colorXyz |-> Call("oklchToXyz65", <<env.color>>)]
         [] i = 2 -> env @@ [sourceBgXyz |-> Call("oklchToXyz65", <<env.sourceBg>>)]
         [] i = 3 -> env @@ [targetBgXyz |-> Call("oklchToXyz65", <<env.targetBg>>)]
         [] i = 4 -> env @@ [sourceYb |-> env.sourceBgXyz.Y]
         [] i = 5 -> env @@ [targetYb |-> env.targetBgXyz.Y]
         [] i = 6 ->
              yielded("sourceConditions",
                      Call("makeViewingConditions",
                           <<SCREEN_ADAPTING_LUMINANCE, env.sourceYb, D65_WHITE_POINT,
                             Omitted>>),
                      env)
         [] i = 7 ->
              yielded("targetConditions",
                      Call("makeViewingConditions",
                           <<SCREEN_ADAPTING_LUMINANCE, env.targetYb, D65_WHITE_POINT,
                             Omitted>>),
                      env)
         [] i = 8 ->
              yielded("appearance",
                      Call("forward",
                           <<env.colorXyz, D65_WHITE_POINT, env.sourceConditions>>),
                      env)
         [] i = 9 ->
              yielded("compensatedXyz",
                      Call("inverse",
                           <<[J |-> env.appearance.J, C |-> env.appearance.C,
                              h |-> env.appearance.h],
                             D65_WHITE_POINT, env.targetConditions>>),
                      env)
         [] i = 10 -> env @@ [compensatedOklch |-> Call("xyz65ToOklch", <<env.compensatedXyz>>)]

\* the statements lo to hi of compensateForBackground: the first half of them, then
\* the others
RECURSIVE compensateBody(_, _, _)
compensateBody(lo, hi, env) ==
  IF lo = hi THEN compensateStatement(lo, env)
  ELSE LET half == compensateBody(lo, (lo + hi) \div 2, env)
       IN <<half, compensateBody((lo + hi) \div 2 + 1, hi, half)>>[2]

\* the outcome of the statements before the gamut clamp
compensateOutcome(env) ==
  IF env.exit # None THEN env.exit ELSE Success(env.compensatedOklch)

\* the steps of compensateForBackground before the gamut clamp: the compensated
\* colour back in OKLCH, or the failure of the CIECAM02 step that failed
compensatedOklch(color, sourceBg, targetBg) ==
  compensateOutcome(compensateBody(1, 10, [color |-> color, sourceBg |-> sourceBg,
                                        targetBg |-> targetBg, exit |-> None]))

\* a faulty variant of clampCompensated, which returns the colour as converted
withoutClamp(compensated) == compensated

\* a faulty variant of mapClampError, which leaves the error of clampToGamut as it is
mapClampErrorUnwrapped(clamped) == clamped

\* Effect.mapError on the outcome of clampToGamut
mapClampError(clamped) ==
  IF clamped.tag = "Failure"
  THEN Failure(ContrastCompensationError("Failed to gamut-clamp compensated color",
                                         clamped.error))
  ELSE clamped

\* the gamut clamp of compensateForBackground, with its error mapping
clampCompensated(compensated) ==
  IF compensated.tag = "Failure" THEN compensated
  ELSE mapClampError(Call("clampToGamut", <<compensated.value>>))

compensateForBackground(color, sourceBg, targetBg) ==
  clampCompensated(compensatedOklch(color, sourceBg, targetBg))

\* the effects compensateBatch hands to Effect.forEach, one for each colour from
\* index i on, each given as the outcome it has when it is run
RECURSIVE elementEffects(_, _, _, _)
elementEffects(colors, sourceBg, targetBg, i) ==
  IF i > Len(colors) THEN <<>>
  ELSE <<Call("compensateForBackground", <<colors[i], sourceBg, targetBg>>)>>
         \o elementEffects(colors, sourceBg, targetBg, i + 1)

\* Effect.forEach from index i on, the results so far in acc: the effects are run
\* one after the other and the first failure ends the loop.  started is the number
\* of effects that were run.
RECURSIVE forEach(_, _, _)
forEach(effects, i, acc) ==
  IF i > Len(effects) THEN [effects |-> effects, exit |-> Success(acc), started |-> i - 1]
  ELSE IF effects[i].tag = "Failure"
       THEN [effects |-> effects, exit |-> Failure(effects[i].error), started |-> i]
       ELSE forEach(effects, i + 1, Append(acc, effects[i].value))

\* a faulty variant of Effect.forEach, which collects the results in reverse
RECURSIVE forEachReversing(_, _, _)
forEachReversing(effects, i, acc) ==
  IF i > Len(effects) THEN [effects |-> effects, exit |-> Success(acc), started |-> i - 1]
  ELSE IF effects[i].tag = "Failure"
       THEN [effects |-> effects, exit |-> Failure(effects[i].error), started |-> i]
       ELSE forEachReversing(effects, i + 1, <<effects[i].value>> \o acc)

\* a faulty variant of Effect.forEach, which runs every effect and fails at the
\* end with the last failure
RECURSIVE forEachToTheEnd(_, _, _)
forEachToTheEnd(effects, i, acc) ==
  IF i > Len(effects) THEN [effects |-> effects, exit |-> acc, started |-> i - 1]
  ELSE IF effects[i].tag = "Failure"
       THEN forEachToTheEnd(effects, i + 1, Failure(effects[i].error))
       ELSE forEachToTheEnd(effects, i + 1,
                            IF acc.tag = "Failure" THEN acc
                            ELSE Success(Append(acc.value, effects[i].value)))

\* a faulty variant of compensateBatch
compensateBatchReversing(colors, sourceBg, targetBg) ==
  forEachReversing(elementEffects(colors, sourceBg, targetBg, 1), 1, <<>>)

\* a faulty variant of compensateBatch
compensateBatchToTheEnd(colors, sourceBg, targetBg) ==
  forEachToTheEnd(elementEffects(colors, sourceBg, targetBg, 1), 1, Success(<<>>))

\* compensateBatch: its exit, with the effects it built and the number it ran
compensateBatch(colors, sourceBg, targetBg) ==
  forEach(elementEffects(colors, sourceBg, targetBg, 1), 1, <<>>)

\* The arguments are evaluated first, as the program evaluates them before the call.
Call(f, args) ==
  <<args,
    CASE f = "*" -> jsMul(args[1], args[2])
         [] f = "+" -> jsAdd(args[1], args[2])
         [] f = "-" -> jsSub(args[1], args[2])
         [] f = "/" -> jsDiv(args[1], args[2])
         [] f = "Math.pow" -> MathPow(args[1], args[2])
         [] f = "Math.sqrt" -> MathSqrt(args[1])
         [] f = "Math.cbrt" -> MathCbrt(args[1])
         [] f = "Math.sin" -> MathSin(args[1])
         [] f = "Math.cos" -> MathCos(args[1])
         [] f = "Math.atan2" -> MathAtan2(args[1], args[2])
         [] f = "Math.exp" -> MathExp(args[1])
         [] f = "multiplyMatrixVec" -> multiplyMatrixVec(args[1], args[2])
         [] f = "nonlinearAdaptation" -> nonlinearAdaptation(args[1], args[2])
         [] f = "inverseNonlinearAdaptation" -> inverseNonlinearAdaptation(args[1], args[2])
         [] f = "eccentricityFactor" -> eccentricityFactor(args[1])
         [] f = "makeViewingConditions" ->
              makeViewingConditions(args[1], args[2], args[3], args[4])
         [] f = "forward" -> forward(args[1], args[2], args[3])
         [] f = "inverse" -> inverse(args[1], args[2], args[3])
         [] f = "oklchToXyz65" -> oklchToXyz65(args[1])
         [] f = "xyz65ToOklch" -> xyz65ToOklch(args[1])
         [] f = "clampToGamut" -> clampToGamut(args[1])
         [] f = "compensateForBackground" -> compensateForBackground(args[1], args[2], args[3])
         [] f = "compensateBatch" -> compensateBatch(args[1], args[2], args[3])
         [] f = "convertLchToLab" -> convertLchToLab(args[1])
         [] f = "convertOklabToLrgb" -> convertOklabToLrgb(args[1])
         [] f = "convertLrgbToRgb" -> convertLrgbToRgb(args[1])
         [] f = "convertRgbToLrgb" -> convertRgbToLrgb(args[1])
         [] f = "convertLrgbToOklab" -> convertLrgbToOklab(args[1])
         [] f = "convertRgbToOklab" -> convertRgbToOklab(args[1])
         [] f = "convertLabToLch" -> convertLabToLch(args[1])
         [] f = "lrgbToXyz65" -> lrgbToXyz65(args[1])
         [] f = "xyz65ToLrgb" -> xyz65ToLrgb(args[1])
         [] f = "culoriXyz65" -> culoriXyz65(args[1])
         [] f = "culoriOklch" -> culoriOklch(args[1])
         [] f = "lrgbToRgb" -> lrgbToRgb(args[1])
         [] f = "rgbToLrgb" -> rgbToLrgb(args[1])
         [] f = "displayable" -> displayable(args[1])
         [] f = "compensatedOklch" -> compensatedOklch(args[1], args[2], args[3])
         [] f = "clampCompensated" -> clampCompensated(args[1])
         [] f = "forwardBody" -> forwardBody(args[1], args[2], args[3])
         [] f = "inverseBody" -> inverseBody(args[1], args[2], args[3])
         [] f = "compensateBody" -> compensateBody(args[1], args[2], args[3])>>[2]

\* ---------------------------------------------------------------------------
\* Callers
\* ---------------------------------------------------------------------------

VARIABLES
  vcArgs,   \* the arguments of the makeViewingConditions call made, or None
  vc,       \* its result
  fwArgs,   \* the xyz given to the forward call made, or None
  fw,       \* its result
  inv,      \* the result of the inverse call made on fw's J, C, h, or None
  comp,     \* the compensateForBackground call made: arguments, colour before
            \* the gamut clamp, result; or None
  back,     \* the same for the call that takes comp's result back to comp's source
            \* background, or None
  batch,    \* the compensateBatch call made: arguments, exit, started; or None
  again     \* the call that was made a second time with the arguments of the first:
            \* its function, the argument objects before and after it, the first
            \* result and the second; or None

\* the state of the other checks, which the calls of the API leave alone
VARIABLES
  ecc,      \* the eccentricityFactor call made: its hue and its result; or None
  cli,      \* the parseArgs call of the script: its argv and its exit; or None
  dtcg,     \* the batchResultToDTCG call made: its batch and its document; or None
  pattern,  \* the smoothPattern call made: its pattern and its result; or None
  calc      \* a calculation made with the helpers of the model on its own; or None

others == <<ecc, cli, dtcg, pattern, calc>>

apiVars == <<vcArgs, vc, fwArgs, fw, inv, comp, back, batch, again, memory>>

vars == <<apiVars, others>>

\* arguments a caller gives to makeViewingConditions: the screen conditions of the
\* tests, the other surrounds and adapting luminances, and degenerate inputs
ViewingArgs ==
  {[La |-> Dec(64, 0), Yb |-> yb, whitePoint |-> D65_WHITE_POINT, surround |-> "average"] :
      yb \in {Dec(10, 0), Dec(20, 0), Dec(50, 0), Dec(100, 0), Zero, Dec(-5, 0),
              Dec(100000, 0)}}
  \cup
  {[La |-> Dec(64, 0), Yb |-> Dec(20, 0), whitePoint |-> D65_WHITE_POINT, surround |-> sr] :
      sr \in {"dim", "dark", "bright"}}
  \cup
  {[La |-> la, Yb |-> Dec(20, 0), whitePoint |-> D65_WHITE_POINT, surround |-> "average"] :
      la \in {Zero, Dec(-2, -1), Dec(31831, -2)}}
  \cup
  {[La |-> Dec(64, 0), Yb |-> Dec(20, 0),
    whitePoint |-> XYZ(Dec(95047, -3), Zero, Dec(108883, -3)), surround |-> "average"],
   [La |-> Dec(64, 0), Yb |-> Dec(50, 0), whitePoint |-> D65_WHITE_POINT,
    surround |-> Omitted]}

\* a colour whose opponent dimension b is, for La = 64 and the average surround,
\* just below zero while a is positive: its hue angle is just below 0 degrees
NEAR_RED_AXIS == XYZ(Dec(73464223, -6), Dec(22753451, -6), Dec(27338946, -6))

\* tristimulus values a caller gives to forward
XYZSamples ==
  {XYZ(Zero, Zero, Zero),
   XYZ(Dec(95047, -3), Dec(100, 0), Dec(108883, -3)),
   XYZ(Dec(1931, -2), Dec(2393, -2), Dec(1014, -2)),
   XYZ(Dec(475235, -4), Dec(50, 0), Dec(544415, -4)),
   XYZ(Dec(177, -1), Dec(173, -1), Dec(638, -1)),
   XYZ(Dec(5, 0), Dec(5, 0), Dec(40, 0)),
   XYZ(Dec(10, 0), Dec(60, 0), Dec(30, 0)),
   XYZ(Zero, Zero, Dec(10, 0)),
   XYZ(Dec(100, 0), Dec(100, 0), Dec(100, 0)),
   NEAR_RED_AXIS}

\* the colours and backgrounds of the compensation tests, a strong blue and a strong
\* red of sRGB, a grey, a colour of low chroma and a colour far outside the sRGB gamut
WHITE_BG == OKLCH(One, Zero, Zero, One)
DARK_BG == OKLCH(Dec(17, -2), Zero, Zero, One)
GRAY_BG == OKLCH(Dec(6, -1), Zero, Zero, One)
BLACK_BG == OKLCH(Zero, Zero, Zero, One)
BLUE == OKLCH(Dec(57, -2), Dec(154, -3), Dec(2587, -1), One)
BLUE_TRANSLUCENT == OKLCH(Dec(57, -2), Dec(154, -3), Dec(2587, -1), Dec(8, -1))
GREEN == OKLCH(Dec(7, -1), Dec(2, -1), Dec(140, 0), One)
GRAY == OKLCH(Half, Zero, Zero, One)
SRGB_BLUE == OKLCH(Dec(452, -3), Dec(3, -1), Dec(266, 0), One)
SRGB_RED == OKLCH(Dec(628, -3), Dec(25, -2), Dec(2923, -2), One)
PALE == OKLCH(Half, Dec(2, -2), Dec(30, 0), One)
NEON == OKLCH(Dec(3, -1), Dec(4, -1), Dec(264, 0), One)

Colors == {BLUE, BLUE_TRANSLUCENT, GREEN, GRAY, SRGB_BLUE, SRGB_RED, PALE, NEON}
Backgrounds == {WHITE_BG, DARK_BG, GRAY_BG, BLACK_BG}

\* the batches: every sequence of at most MaxBatchLen of the batch colours
MaxBatchLen == 3
BatchColors == {BLUE, GREEN, NEON}
Batches == UNION {[1..n -> BatchColors] : n \in 0..MaxBatchLen}
BatchBackgrounds == {<<WHITE_BG, DARK_BG>>, <<GRAY_BG, BLACK_BG>>}

\* a faulty variant of objectsAfter, in which forward leaves the white point it
\* was given, a module constant, scaled to Y = 1
objectsAfterScaling(f, constants, args) ==
  IF f = "forward" /\ args[2] = constants.D65_WHITE_POINT
  THEN [constants |->
          [constants EXCEPT !.D65_WHITE_POINT =
             XYZ(fDiv(args[2].X, args[2].Y), One, fDiv(args[2].Z, args[2].Y))],
        args |-> [args EXCEPT ![2] = XYZ(fDiv(args[2].X, args[2].Y), One,
                                         fDiv(args[2].Z, args[2].Y))]]
  ELSE [constants |-> constants, args |-> args]

\* The module constants and the argument objects after a call of f: no statement
\* of the five functions or of their helpers assigns to a constant, to an element
\* of one or to a property of a parameter; every result is a new object.
objectsAfter(f, constants, args) == [constants |-> constants, args |-> args]

Init ==
  /\ memory = ModuleConstants
  /\ ecc = None
  /\ cli = None
  /\ dtcg = None
  /\ pattern = None
  /\ calc = None
  /\ again = None
  /\ vcArgs = None
  /\ vc = None
  /\ fwArgs = None
  /\ fw = None
  /\ inv = None
  /\ comp = None
  /\ back = None
  /\ batch = None

Idle == vc = None /\ comp = None /\ batch = None

MakeViewingConditions(args) ==
  /\ Idle
  /\ vcArgs' = args
  /\ vc' = Call("makeViewingConditions", <<args.La, args.Yb, args.whitePoint, args.surround>>)
  /\ memory' = objectsAfter("makeViewingConditions", memory,
                             <<args.La, args.Yb, args.whitePoint, args.surround>>).constants
  /\ UNCHANGED <<fwArgs, fw, inv, comp, back, batch, again, others>>

Forward(xyz) ==
  /\ vc.tag = "Success"
  /\ fw = None
  /\ fwArgs' = xyz
  /\ fw' = Call("forward", <<xyz, vcArgs.whitePoint, vc.value>>)
  /\ memory' = objectsAfter("forward", memory, <<xyz, vcArgs.whitePoint, vc.value>>).constants
  /\ UNCHANGED <<vcArgs, vc, inv, comp, back, batch, again, others>>

\* the arguments of the inverse call made on the result of forward
inverseArgs ==
  <<[J |-> fw.value.J, C |-> fw.value.C, h |-> fw.value.h], vcArgs.whitePoint, vc.value>>

Inverse ==
  /\ fw.tag = "Success"
  /\ inv = None
  /\ inv' = Call("inverse", inverseArgs)
  /\ memory' = objectsAfter("inverse", memory, inverseArgs).constants
  /\ UNCHANGED <<vcArgs, vc, fwArgs, fw, comp, back, batch, again, others>>

\* the record of one compensateForBackground call, given the colour before the
\* gamut clamp
CallRecord(color, sourceBg, targetBg, compensated) ==
  [tag |-> "Call", color |-> color, sourceBg |-> sourceBg, targetBg |-> targetBg,
   compensated |-> compensated, result |-> Call("clampCompensated", <<compensated>>)]

\* the record of one compensateForBackground call
Compensation(color, sourceBg, targetBg) ==
  CallRecord(color, sourceBg, targetBg,
             Call("compensatedOklch", <<color, sourceBg, targetBg>>))

CompensateForBackground(color, sourceBg, targetBg) ==
  /\ Idle
  /\ comp' = Compensation(color, sourceBg, targetBg)
  /\ memory' = objectsAfter("compensateForBackground", memory,
                             <<color, sourceBg, targetBg>>).constants
  /\ UNCHANGED <<vcArgs, vc, fwArgs, fw, inv, back, batch, again, others>>

\* the caller takes the compensated colour back to the source background
CompensateBack ==
  /\ comp.tag = "Call"
  /\ comp.result.tag = "Success"
  /\ back = None
  /\ back' = Compensation(comp.result.value, comp.targetBg, comp.sourceBg)
  /\ memory' = objectsAfter("compensateForBackground", memory,
                             <<comp.result.value, comp.targetBg, comp.sourceBg>>).constants
  /\ UNCHANGED <<vcArgs, vc, fwArgs, fw, inv, comp, batch, again, others>>

CompensateBatch(colors, sourceBg, targetBg) ==
  /\ Idle
  /\ batch' = [tag |-> "Call", colors |-> colors, sourceBg |-> sourceBg, targetBg |-> targetBg,
               run |-> Call("compensateBatch", <<colors, sourceBg, targetBg>>)]
  /\ memory' = objectsAfter("compensateBatch", memory, <<colors, sourceBg, targetBg>>).constants
  /\ UNCHANGED <<vcArgs, vc, fwArgs, fw, inv, comp, back, again, others>>

\* the record of a second call of f with the arguments args of the first call,
\* whose result was first
SecondCall(f, args, first) ==
  [tag |-> "Call", f |-> f, given |-> args, after |-> objectsAfter(f, memory, args).args,
   first |-> first, result |-> Call(f, args)]

\* The caller makes one of its calls a second time, with the same arguments,
\* after the calls that followed it: makeViewingConditions, forward or inverse
\* after the three of them, compensateForBackground after the call that took its
\* result back, compensateBatch after the batch.
CallAgain(f) ==
  /\ again = None
  /\ \/ /\ f = "makeViewingConditions"
        /\ inv # None
        /\ again' = SecondCall(f, <<vcArgs.La, vcArgs.Yb, vcArgs.whitePoint, vcArgs.surround>>,
                               vc)
     \/ /\ f = "forward"
        /\ inv # None
        /\ again' = SecondCall(f, <<fwArgs, vcArgs.whitePoint, vc.value>>, fw)
     \/ /\ f = "inverse"
        /\ inv # None
        /\ again' = SecondCall(f, inverseArgs, inv)
     \/ /\ f = "compensateForBackground"
        /\ back # None
        /\ again' = SecondCall(f, <<comp.color, comp.sourceBg, comp.targetBg>>, comp.result)
     \/ /\ f = "compensateBatch"
        /\ batch # None
        /\ again' = SecondCall(f, <<batch.colors, batch.sourceBg, batch.targetBg>>,
                               batch.run)
  /\ memory' = objectsAfter(f, memory, again'.given).constants
  /\ UNCHANGED <<vcArgs, vc, fwArgs, fw, inv, comp, back, batch, others>>

\* the caller drops its results and starts over
Discard ==
  /\ ~Idle
  /\ vcArgs' = None
  /\ vc' = None
  /\ fwArgs' = None
  /\ fw' = None
  /\ inv' = None
  /\ comp' = None
  /\ back' = None
  /\ batch' = None
  /\ again' = None
  /\ UNCHANGED <<memory, others>>

\* the five functions of the module's API
ApiFunctions ==
  {"makeViewingConditions", "forward", "inverse", "compensateForBackground",
   "compensateBatch"}

Next ==
  \/ \E args \in ViewingArgs : MakeViewingConditions(args)
  \/ \E xyz \in XYZSamples : Forward(xyz)
  \/ Inverse
  \/ \E color \in Colors, sourceBg \in Backgrounds, targetBg \in Backgrounds :
       CompensateForBackground(color, sourceBg, targetBg)
  \/ CompensateBack
  \/ \E colors \in Batches, bgs \in BatchBackgrounds : CompensateBatch(colors, bgs[1], bgs[2])
  \/ \E f \in ApiFunctions : CallAgain(f)
  \/ Discard

Spec == Init /\ [][Next]_vars

\* ---------------------------------------------------------------------------
\* The eccentricity factor on its own
\* ---------------------------------------------------------------------------

\* the number of equal steps of the circle at which eccentricityFactor is called
HueSamples == 120

\* hues in [0, 360): the steps of the circle, the angles of the table and their
\* neighbours of eight digits
Hues ==
  {fDiv(Dec(360 * k, 0), Dec(HueSamples, 0)) : k \in 0..(HueSamples - 1)}
  \cup {Dec(20139999, -6), Dec(2014, -2), Dec(20140001, -6), Dec(20139, -3),
        Dec(89999999, -6), Dec(90, 0), Dec(16424999, -5), Dec(16425, -2),
        Dec(23752999, -5), Dec(23753, -2), Dec(35999999, -5), Dec(1, -7)}

\* forward and inverse call eccentricityFactor with the hue h
EccentricityFactor(h) ==
  /\ ecc' = [tag |-> "Call", h |-> h, locals |-> eccentricityLocals(h),
             et |-> Call("eccentricityFactor", <<h>>)]
  /\ UNCHANGED <<apiVars, cli, dtcg, pattern, calc>>

NextEccentricity == \E h \in Hues : EccentricityFactor(h)

SpecEccentricity == Init /\ [][NextEccentricity]_vars

\* ---------------------------------------------------------------------------
\* The contrast-compensate script: parseArgs
\* ---------------------------------------------------------------------------

\* new Error(message)
Error(message) == [errTag |-> "Error", message |-> message]

\* the condition under which --format keeps its value: a ColorSpace of the script
isColorSpaceAny(fmt) == fmt # Omitted

isColorSpace(fmt) == fmt \in {"hex", "rgb", "oklch", "oklab"}

\* args[i], counted from 0; undefined past the end (no argument of a command line
\* is undefined itself)
At(args, i) == IF i < Len(args) THEN args[i + 1] ELSE Omitted

\* the locals of parseArgs before its loop; thrown is the Error thrown, if any
parseArgsLocals ==
  [sourceBg |-> Omitted, targetBg |-> Omitted, format |-> "hex", colors |-> <<>>,
   i |-> 0, thrown |-> None]

\* a faulty variant of parseArgsTurn, which reads the value of a flag and goes on
\* to the value instead of past it
parseArgsTurnRescanning(args, st) ==
  LET arg == At(args, st.i)
      fmt == At(args, st.i + 1)
  IN  IF arg = "--source-bg"
      THEN [st EXCEPT !.sourceBg = At(args, st.i + 1), !.i = st.i + 1]
      ELSE IF arg = "--target-bg"
      THEN [st EXCEPT !.targetBg = At(args, st.i + 1), !.i = st.i + 1]
      ELSE IF arg = "--format"
      THEN IF ~isColorSpace(fmt)
           THEN [st EXCEPT !.i = st.i + 1,
                           !.thrown = Error("Invalid format: " \o fmt
                                            \o ". Expected: hex, rgb, oklch, oklab")]
           ELSE [st EXCEPT !.format = fmt, !.i = st.i + 1]
      ELSE [st EXCEPT !.colors = IF arg # Omitted THEN Append(@, arg) ELSE @,
                      !.i = st.i + 1]

\* one turn of the loop: the switch on args[i], then i++
parseArgsTurn(args, st) ==
  LET arg == At(args, st.i)
      fmt == At(args, st.i + 1)
  IN  IF arg = "--source-bg"
      THEN [st EXCEPT !.sourceBg = At(args, st.i + 1), !.i = st.i + 2]
      ELSE IF arg = "--target-bg"
      THEN [st EXCEPT !.targetBg = At(args, st.i + 1), !.i = st.i + 2]
      ELSE IF arg = "--format"
      THEN IF ~isColorSpace(fmt)
           THEN [st EXCEPT !.i = st.i + 1,
                           !.thrown = Error("Invalid format: " \o fmt
                                            \o ". Expected: hex, rgb, oklch, oklab")]
           ELSE [st EXCEPT !.format = fmt, !.i = st.i + 2]
      ELSE [st EXCEPT !.colors = IF arg # Omitted THEN Append(@, arg) ELSE @,
                      !.i = st.i + 1]

\* while (i < args.length), left early by a throw
RECURSIVE parseArgsLoop(_, _)
parseArgsLoop(args, st) ==
  IF st.thrown # None \/ ~(st.i < Len(args)) THEN st
  ELSE parseArgsLoop(args, parseArgsTurn(args, st))

\* Effect.try: the value returned, or the Error thrown (every throw is of an Error,
\* which catch hands on as it is)
parseArgsExit(st) ==
  IF st.thrown # None THEN Failure(st.thrown)
  ELSE IF st.sourceBg = Omitted
  THEN Failure(Error("Missing required flag: --source-bg"))
  ELSE IF st.targetBg = Omitted
  THEN Failure(Error("Missing required flag: --target-bg"))
  ELSE IF Len(st.colors) = 0 THEN Failure(Error("No foreground colors provided"))
  ELSE Success([sourceBg |-> st.sourceBg, targetBg |-> st.targetBg,
                format |-> st.format, colors |-> st.colors])

parseArgs(argv) ==
  parseArgsExit(parseArgsLoop(SubSeq(argv, 3, Len(argv)), parseArgsLocals))

\* the most arguments given after the script path
MaxArgs == 7

\* what an argument may be: a flag, a format, a colour
Tokens == {"--source-bg", "--target-bg", "--format", "oklch", "#2D72D2"}

\* process.argv: node, the script path, the arguments
Argvs ==
  {<<"node", "scripts/contrast-compensate.ts">> \o args :
     args \in UNION {[1..n -> Tokens] : n \in 0..MaxArgs}}

ParseArgs(argv) ==
  /\ cli' = [tag |-> "Call", argv |-> argv, exit |-> parseArgs(argv)]
  /\ UNCHANGED <<apiVars, ecc, dtcg, pattern, calc>>

\* the script parses its arguments once
NextCli == cli = None /\ \E argv \in Argvs : ParseArgs(argv)

SpecCli == Init /\ [][NextCli]_vars

\* ---------------------------------------------------------------------------
\* The DTCG transformer: batchResultToDTCG
\* ---------------------------------------------------------------------------

\* the key of the extensions of this tool, a string of dtcg.schema
EXTENSION_NAMESPACE == "EXTENSION_NAMESPACE"

\* { ...a, ...b }: the keys of both, those of b over those of a
Spread(a, b) == b @@ a

\* the empty object
EmptyObject == [k \in {} |-> Undefined]

\* Object.fromEntries of pairs <<key, value>>: a later pair over an earlier one
RECURSIVE fromEntries(_, _)
fromEntries(entries, n) ==
  IF n = 0 THEN EmptyObject
  ELSE Spread(fromEntries(entries, n - 1), entries[n][1] :> entries[n][2])

\* oklchToHex of color.js: the hex string of a colour, or a failure for one that
\* has no number for a component
oklchToHex(color) ==
  IF IsFinite(color.l) /\ IsFinite(color.c) /\ IsFinite(color.h)
  THEN Success(color.hex) ELSE Failure("ColorError")

\* a faulty variant of generateHexFallback, which falls back to black
generateHexFallbackBlack(stop) ==
  LET hex == oklchToHex(stop.color)
  IN  IF hex.tag = "Success" THEN hex.value ELSE "#000000"

generateHexFallback(stop) ==
  LET hex == oklchToHex(stop.color)
  IN  IF hex.tag = "Success" THEN hex.value ELSE Omitted

generateHexFallbacks(stops) == [i \in 1..Len(stops) |-> generateHexFallback(stops[i])]

buildStopExtension(stop) == [position |-> stop.position, formattedValue |-> stop.value]

buildPaletteExtension(palette) ==
  [inputColor |-> palette.inputColor, anchorStop |-> palette.anchorStop,
   outputFormat |-> palette.outputFormat]

\* the extension with failures kept whatever it holds
buildBatchExtensionAlways(b) ==
  [outputFormat |-> b.outputFormat, generatedAt |-> b.generatedAt,
   failures |-> b.failures]

\* failures is kept only when it is a non-empty array
buildBatchExtension(b) ==
  Spread([outputFormat |-> b.outputFormat, generatedAt |-> b.generatedAt],
         IF Len(b.failures) > 0 THEN [failures |-> b.failures] ELSE EmptyObject)

buildColorValue(stop, hex) ==
  Spread(Spread([colorSpace |-> "oklch",
                 components |-> <<stop.color.l, stop.color.c, stop.color.h>>],
                IF stop.color.alpha # One THEN [alpha |-> stop.color.alpha]
                ELSE EmptyObject),
         IF hex # Omitted THEN [hex |-> hex] ELSE EmptyObject)

buildColorToken(stop, hex) ==
  ("$type" :> "color") @@ ("$value" :> buildColorValue(stop, hex))
  @@ ("$extensions" :> (EXTENSION_NAMESPACE :> buildStopExtension(stop)))

buildStopTokensRecord(stops, hexFallbacks) ==
  fromEntries([i \in 1..Len(stops) |->
                 <<ToString(stops[i].position), buildColorToken(stops[i], hexFallbacks[i])>>],
              Len(stops))

buildPalette(palette, hexFallbacks) ==
  Spread(("$type" :> "color")
         @@ ("$extensions" :> (EXTENSION_NAMESPACE :> buildPaletteExtension(palette))),
         buildStopTokensRecord(palette.stops, hexFallbacks))

buildPalettesRecord(palettesWithHex) ==
  fromEntries([i \in 1..Len(palettesWithHex) |->
                 <<palettesWithHex[i].palette.name,
                   buildPalette(palettesWithHex[i].palette,
                                palettesWithHex[i].hexFallbacks)>>],
              Len(palettesWithHex))

\* the object batchResultToDTCG returns, given what its Effect.forEach yielded
batchDocument(b, palettesWithHex) ==
  Spread(("$description" :> b.groupName)
         @@ ("$extensions" :> (EXTENSION_NAMESPACE :> buildBatchExtension(b))),
         buildPalettesRecord(palettesWithHex))

\* the document the Effect succeeds with; the Effect cannot fail
batchResultToDTCG(b) ==
  batchDocument(b, [i \in 1..Len(b.palettes) |->
                      [hexFallbacks |-> generateHexFallbacks(b.palettes[i].stops),
                       palette |-> b.palettes[i]]])

\* the object paletteResultToDTCG returns, given the fallbacks of its stops
paletteDocument(palette, hexFallbacks) == palette.name :> buildPalette(palette, hexFallbacks)

paletteResultToDTCG(palette) == paletteDocument(palette, generateHexFallbacks(palette.stops))

\* the most palettes and the most failures of a batch
MaxPalettes == 2
MaxFailures == 2

\* stops as the tests make them, one translucent, one with a colour off the
\* numbers; hex is what oklchToHex makes of the colour when it makes anything
makeFormattedStop(position, l, alpha, value) ==
  [position |-> position,
   color |-> [l |-> l, c |-> Dec(1, -1), h |-> Dec(259, 0), alpha |-> alpha, hex |-> value],
   value |-> value]

StopLists ==
  {<<makeFormattedStop(100, Dec(95, -2), One, "#f0f4f9"),
     makeFormattedStop(500, Dec(57, -2), One, "#2d72d2")>>,
   <<makeFormattedStop(500, Dec(57, -2), Half, "#2d72d280"),
     makeFormattedStop(1000, NaN, One, "#071630")>>}

\* a palette name is any string: those of the tests, and the name of a key the
\* document has of its own
PaletteNames == {"primary", "secondary", "$extensions"}

makePaletteResult(name, stops) ==
  [name |-> name, inputColor |-> "#2d72d2", anchorStop |-> 500, outputFormat |-> "hex",
   stops |-> stops]

PaletteResults == {makePaletteResult(name, stops) : name \in PaletteNames, stops \in StopLists}

GenerationFailures ==
  {[color |-> "#invalid", stop |-> 500, error |-> "Failed to generate"],
   [color |-> "#nope", stop |-> 100, error |-> "Failed to parse"]}

SeqsUpTo(S, n) == UNION {[1..k -> S] : k \in 0..n}

BatchResults ==
  {[groupName |-> "test-batch", outputFormat |-> outputFormat,
    generatedAt |-> "2024-01-15T12:00:00.000Z", palettes |-> palettes,
    failures |-> failures] :
     outputFormat \in {"hex", "oklch"},
     palettes \in SeqsUpTo(PaletteResults, MaxPalettes),
     failures \in SeqsUpTo(GenerationFailures, MaxFailures)}

BatchResultToDTCG(b) ==
  /\ dtcg' = [tag |-> "Call", batch |-> b, doc |-> batchResultToDTCG(b)]
  /\ UNCHANGED <<apiVars, ecc, cli, pattern, calc>>

\* one export of one batch
NextDtcg == dtcg = None /\ \E b \in BatchResults : BatchResultToDTCG(b)

SpecDtcg == Init /\ [][NextDtcg]_vars

\* ---------------------------------------------------------------------------
\* Pattern smoothing: smoothPattern
\* ---------------------------------------------------------------------------

\* the stops of a palette, lightest first
STOP_POSITIONS == <<100, 200, 300, 400, 500, 600, 700, 800, 900, 1000>>

StopPositions == {STOP_POSITIONS[i] : i \in 1..Len(STOP_POSITIONS)}

\* the i with STOP_POSITIONS[i] = position, counted from 0
indexOfStop(position) ==
  (CHOOSE i \in 1..Len(STOP_POSITIONS) : STOP_POSITIONS[i] = position) - 1

\* the linear progression from maxMultiplier at stop 100 to minMultiplier at stop
\* 1000, before it is normalized
linearProgression ==
  LET minMultiplier == Dec(1, -1)
      maxMultiplier == Dec(19, -1)
      totalSteps == Len(STOP_POSITIONS) - 1
      range == fSub(maxMultiplier, minMultiplier)
      stepSize == fDiv(range, FromInt(totalSteps))
  IN  [position \in StopPositions |->
         fSub(maxMultiplier, fMul(stepSize, FromInt(indexOfStop(position))))]

\* the progression as it is, not divided by its value at the reference stop
calculateLinearLightnessAsIs(referenceStop) == linearProgression

calculateLinearLightness(referenceStop) ==
  LET refValue == linearProgression[referenceStop]
  IN  [position \in StopPositions |-> fDiv(linearProgression[position], refValue)]

smoothChromaCurve(p) ==
  LET refStop == p.referenceStop
      chroma100 == p.transforms[100].chromaMultiplier
      chroma1000 == p.transforms[1000].chromaMultiplier
      avgEndChroma == fDiv(fAdd(chroma100, chroma1000), Two)
      distance == FromInt(450)
      a == fDiv(fSub(avgEndChroma, One), fMul(distance, distance))
  IN  [position \in StopPositions |->
         LET x == FromInt(position - refStop)
         IN  fMax(Zero, fAdd(fMul(fMul(a, x), x), One))]

\* sorted.sort((a, b) => a - b) of numbers: x put in its place in a sorted array
RECURSIVE insertSorted(_, _)
insertSorted(sorted, x) ==
  IF sorted = <<>> THEN <<x>>
  ELSE IF fLt(x, Head(sorted)) THEN <<x>> \o sorted
  ELSE <<Head(sorted)>> \o insertSorted(Tail(sorted), x)

RECURSIVE sortNumbers(_, _)
sortNumbers(numbers, n) ==
  IF n = 0 THEN <<>> ELSE insertSorted(sortNumbers(numbers, n - 1), numbers[n])

\* the median of the hue shifts of the stops
calculateConsistentHue(p) ==
  LET hueShifts == [i \in 1..Len(STOP_POSITIONS) |->
                      p.transforms[STOP_POSITIONS[i]].hueShiftDegrees]
      sorted == sortNumbers(hueShifts, Len(hueShifts))
      mid == Len(sorted) \div 2
  IN  IF Len(sorted) % 2 = 0 THEN fDiv(fAdd(sorted[mid], sorted[mid + 1]), Two)
      ELSE sorted[mid + 1]

smoothPattern(p) ==
  LET lightnessMultipliers == calculateLinearLightness(p.referenceStop)
      chromaMultipliers == smoothChromaCurve(p)
      consistentHue == calculateConsistentHue(p)
  IN  [p EXCEPT !.name = p.name \o "-smoothed",
                !.transforms =
                  [position \in StopPositions |->
                     [lightnessMultiplier |-> lightnessMultipliers[position],
                      chromaMultiplier |-> chromaMultipliers[position],
                      hueShiftDegrees |-> consistentHue]]]

\* chroma multipliers a learned pattern has at its end stops: below, at and above 1
EndChromas == {Dec(2, -1), Dec(8, -1), One, Dec(15, -1)}

\* the hue shifts of the stops: one value at all, or values rising with the stop
HueShifts ==
  {[position \in StopPositions |-> Dec(25, -1)],
   [position \in StopPositions |-> FromInt(indexOfStop(position) - 4)]}

\* learned patterns: a reference stop, chroma at the two ends, a hue shift per stop
TransformationPatterns ==
  {[name |-> "learned", referenceStop |-> referenceStop,
    transforms |->
      [position \in StopPositions |->
         [lightnessMultiplier |-> linearProgression[position],
          chromaMultiplier |-> IF position = 100 THEN chroma100
                               ELSE IF position = 1000 THEN chroma1000 ELSE One,
          hueShiftDegrees |-> hueShifts[position]]]] :
     referenceStop \in StopPositions, chroma100 \in EndChromas,
     chroma1000 \in EndChromas, hueShifts \in HueShifts}

SmoothPattern(p) ==
  /\ pattern' = [tag |-> "Call", given |-> p, smoothed |-> smoothPattern(p)]
  /\ UNCHANGED <<apiVars, ecc, cli, dtcg, calc>>

\* one pattern learned and smoothed
NextPattern == pattern = None /\ \E p \in TransformationPatterns : SmoothPattern(p)

SpecPattern == Init /\ [][NextPattern]_vars

\* ---------------------------------------------------------------------------
\* The opponent axes of forward and the linear solve of inverse
\* ---------------------------------------------------------------------------

\* step 4 of forward: a and b of the cone responses
opponentAxes(Ra, Ga, Ba) ==
  LET env == Call("forwardBody", <<9, 10, [Ra |-> Ra, Ga |-> Ga, Ba |-> Ba]>>)
  IN  [a |-> env.a, b |-> env.b]

\* p2, a and b handed on as they are
opponentSolveSkipped(p2, a, b) == <<p2, a, b>>

\* step 5 of inverse: Ra, Ga, Ba of p2, a and b
opponentSolve(p2, a, b) ==
  LET env == Call("inverseBody", <<14, 16, [p2 |-> p2, a |-> a, b |-> b]>>)
  IN  <<env.Ra, env.Ga, env.Ba>>

\* cone responses: whole multiples of 1980, of which every quotient of steps 4 and
\* 5 is a whole number, and responses as they come, a tenth apart
ResponseUnit(whole) == IF whole THEN Dec(1980, 0) ELSE Dec(731, -1)
Responses(whole) == {fAdd(fMul(FromInt(k), ResponseUnit(whole)),
                          IF whole THEN Zero ELSE Dec(1, -1)) : k \in (-2)..3}

OpponentRoundTrip(whole, Ra, Ga, Ba) ==
  \E p2 \in {fAdd(fAdd(fMul(Two, Ra), Ga), fDiv(Ba, Dec(20, 0)))},
     axes \in {opponentAxes(Ra, Ga, Ba)} :
    /\ calc' = [tag |-> "OpponentRoundTrip", whole |-> whole,
                given |-> <<Ra, Ga, Ba>>, p2 |-> p2, a |-> axes.a, b |-> axes.b,
                solved |-> opponentSolve(p2, axes.a, axes.b)]
    /\ UNCHANGED <<apiVars, ecc, cli, dtcg, pattern>>

NextOpponent ==
  /\ calc = None
  /\ \E whole \in BOOLEAN :
       \E Ra \in Responses(whole), Ga \in Responses(whole), Ba \in Responses(whole) :
         OpponentRoundTrip(whole, Ra, Ga, Ba)

SpecOpponent == Init /\ [][NextOpponent]_vars

\* ---------------------------------------------------------------------------
\* The nonlinear compression and its inverse
\* ---------------------------------------------------------------------------

\* the decades of the cone values of colours, and a power of ten far beyond them
MaxDecade == 4
FarDecade == 50

\* cone values: 0, and 1, 2 and 5 times the powers of ten, of either sign
ConeMagnitudes ==
  {Dec(k, j) : k \in {1, 2, 5}, j \in (-2)..MaxDecade} \cup {Dec(1, FarDecade)}
ConeValues == {Zero} \cup ConeMagnitudes \cup {fNeg(v) : v \in ConeMagnitudes}

\* luminance adaptation factors above 0
AdaptationFactors == {Dec(1, -2), Dec(27, -2), One, Dec(5, 0)}

AdaptationRoundTrip(v, Fl) ==
  LET adapted == Call("nonlinearAdaptation", <<v, Fl>>)
  IN  /\ calc' = [tag |-> "AdaptationRoundTrip", v |-> v, Fl |-> Fl, adapted |-> adapted,
                  back |-> Call("inverseNonlinearAdaptation", <<adapted, Fl>>)]
      /\ UNCHANGED <<apiVars, ecc, cli, dtcg, pattern>>

NextAdaptation ==
  /\ calc = None
  /\ \E v \in ConeValues, Fl \in AdaptationFactors : AdaptationRoundTrip(v, Fl)

SpecAdaptation == Init /\ [][NextAdaptation]_vars

\* ---------------------------------------------------------------------------
\* The matrices and their inverses
\* ---------------------------------------------------------------------------

\* the number x of at most d decimals as the whole number x * 10^d
Scaled(x, d) ==
  IF x[1] = 0 THEN 0
  ELSE IF x[2] + d >= 0 THEN x[1] * Pow10(x[2] + d)
  ELSE x[1] \div Pow10(-(x[2] + d))

\* a matrix and the one held to be its inverse, with the decimals they are written
\* with: first the matrix applied second, then the matrix applied first
MatrixPairs ==
  [CAT02_after_INV |-> [m |-> M_CAT02, md |-> 4, inv |-> M_CAT02_INV, invd |-> 6],
   CAT02_INV_after |-> [m |-> M_CAT02_INV, md |-> 6, inv |-> M_CAT02, invd |-> 4],
   HPE_after_INV |-> [m |-> M_HPE, md |-> 5, inv |-> M_HPE_INV, invd |-> 6],
   HPE_INV_after |-> [m |-> M_HPE_INV, md |-> 6, inv |-> M_HPE, invd |-> 5]]

\* row i of the matrix n of d decimals times the whole vector v, as a whole number
ScaledRow(n, d, i, v) ==
  Scaled(n[i][1], d) * v[1] + Scaled(n[i][2], d) * v[2] + Scaled(n[i][3], d) * v[3]

\* m (inv v) - v for a whole vector v, each component as a whole number of units
\* of 10^-(md + invd), in exact arithmetic: the thousands of inv v and the rest
\* are multiplied apart to stay within the whole numbers at hand
ExactDeviation(pair, v) ==
  LET w == [k \in 1..3 |-> ScaledRow(pair.inv, pair.invd, k, v)]
      thousands == [k \in 1..3 |-> w[k] \div 1000]
      rest == [k \in 1..3 |-> w[k] % 1000]
  IN  [i \in 1..3 |->
         (ScaledRow(pair.m, pair.md, i, thousands)
            - v[i] * Pow10(pair.md + pair.invd - 3)) * 1000
         + ScaledRow(pair.m, pair.md, i, rest)]

\* the vectors of whole components up to 1 in magnitude; the unit vectors among
\* them give the columns of the product of the two matrices
UnitRange == 1
WholeVectors == {<<x, y, z>> : x, y, z \in (-UnitRange)..UnitRange}

AsNumbers(v) == <<FromInt(v[1]), FromInt(v[2]), FromInt(v[3])>>

\* inverse step 7 after forward step 2, in the arithmetic of the program
chainRoundTrip(v) ==
  Call("multiplyMatrixVec",
       <<M_CAT02,
         Call("multiplyMatrixVec",
              <<M_HPE_INV,
                Call("multiplyMatrixVec",
                     <<M_HPE, Call("multiplyMatrixVec", <<M_CAT02_INV, v>>)>>)>>)>>)

MatrixRoundTrip(name, v) ==
  LET pair == MatrixPairs[name]
  IN  /\ calc' = [tag |-> "MatrixRoundTrip", pair |-> name, v |-> v,
                  units |-> Pow10(pair.md + pair.invd - 7),
                  deviation |-> ExactDeviation(pair, v),
                  computed |-> Call("multiplyMatrixVec",
                                    <<pair.m, Call("multiplyMatrixVec",
                                                   <<pair.inv, AsNumbers(v)>>)>>),
                  chain |-> chainRoundTrip(AsNumbers(v))]
      /\ UNCHANGED <<apiVars, ecc, cli, dtcg, pattern>>

NextMatrices ==
  /\ calc = None
  /\ \E name \in DOMAIN MatrixPairs, v \in WholeVectors : MatrixRoundTrip(name, v)

SpecMatrices == Init /\ [][NextMatrices]_vars

\* ---------------------------------------------------------------------------
\* Viewing conditions of two backgrounds
\* ---------------------------------------------------------------------------

\* adapting luminances, white points, surrounds and background luminances a caller
\* gives to makeViewingConditions
AdaptingLuminances == {Dec(64, 0), Zero, Dec(31831, -2)}
WhitePoints == {D65_WHITE_POINT, XYZ(Dec(95047, -3), Zero, Dec(108883, -3))}
SurroundLabels == {"average", "dim", "dark", "bright", Omitted}
BackgroundLuminances == {Zero, Dec(-5, 0), Dec(20, 0), Dec(100, 0)}

\* two calls of makeViewingConditions that differ in Yb only
TwoBackgrounds(La, whitePoint, surround, Yb1, Yb2) ==
  /\ calc' = [tag |-> "TwoBackgrounds", La |-> La, whitePoint |-> whitePoint,
              surround |-> surround, Yb1 |-> Yb1, Yb2 |-> Yb2,
              first |-> Call("makeViewingConditions", <<La, Yb1, whitePoint, surround>>),
              second |-> Call("makeViewingConditions", <<La, Yb2, whitePoint, surround>>)]
  /\ UNCHANGED <<apiVars, ecc, cli, dtcg, pattern>>

\* step 1 of forward under the source conditions
adaptationApplied(env) ==
  Call("forwardBody", <<1, 4, [xyz |-> env.colorXyz, whitePoint |-> D65_WHITE_POINT,
                              conditions |-> env.sourceConditions]>>)

\* step 8 of inverse under the target conditions, on the adapted responses rgc
adaptationUndone(env, rgc) ==
  Call("inverseBody", <<19, 20, [whitePoint |-> D65_WHITE_POINT,
                                 D |-> env.targetConditions.D, rgc |-> rgc]>>)

\* the conditions compensateForBackground builds, the chromatic adaptation its
\* forward call applies and what step 8 of its inverse call makes of it
CompensationConditions(color, sourceBg, targetBg) ==
  \E env \in {Call("compensateBody", <<1, 7, [color |-> color, sourceBg |-> sourceBg,
                                               targetBg |-> targetBg, exit |-> None]>>)} :
    \E applied \in {adaptationApplied(env)} :
      /\ env.exit = None
      /\ calc' = [tag |-> "CompensationConditions", color |-> color,
                  source |-> env.sourceConditions, target |-> env.targetConditions,
                  whiteRgb |-> applied.whiteRgb, rgb |-> applied.rgb,
                  rgc |-> applied.rgc,
                  undone |-> adaptationUndone(env, applied.rgc).rgb]
      /\ UNCHANGED <<apiVars, ecc, cli, dtcg, pattern>>

NextConditions ==
  /\ calc = None
  /\ \/ \E La \in AdaptingLuminances, whitePoint \in WhitePoints,
           surround \in SurroundLabels, Yb1, Yb2 \in BackgroundLuminances :
          TwoBackgrounds(La, whitePoint, surround, Yb1, Yb2)
     \/ \E color \in {BLUE, GREEN, GRAY}, sourceBg, targetBg \in Backgrounds :
          CompensationConditions(color, sourceBg, targetBg)

SpecConditions == Init /\ [][NextConditions]_vars

\* ---------------------------------------------------------------------------
\* The export with its concurrent conversions
\* ---------------------------------------------------------------------------

\* a list of stops that share a position
RepeatedStops ==
  <<makeFormattedStop(500, Dec(57, -2), One, "#2d72d2"),
    makeFormattedStop(500, NaN, One, "#1c4a8c")>>

ExportPalettes ==
  PaletteResults \cup {makePaletteResult(name, RepeatedStops) : name \in {"primary"}}

ExportBatches ==
  {[groupName |-> "test-batch", outputFormat |-> "hex",
    generatedAt |-> "2024-01-15T12:00:00.000Z", palettes |-> palettes,
    failures |-> <<>>] : palettes \in SeqsUpTo(ExportPalettes, MaxPalettes)}

\* a faulty variant of forEachCollected: the results in the order the fibers ended
forEachInCompletionOrder(n, completions) == [i \in 1..n |-> completions[i][2]]

\* What Effect.forEach yields for n elements run with unbounded concurrency, of the
\* completions <<index, result>> in the order the fibers ended: the result of
\* each element at the index of the element
forEachCollected(n, completions) ==
  [i \in 1..n |-> (CHOOSE c \in {completions[j] : j \in 1..Len(completions)} : c[1] = i)[2]]

\* the completions <<index, result>> of the stops of palette p
RECURSIVE completionsOf(_, _)
completionsOf(p, completed) ==
  IF completed = <<>> THEN <<>>
  ELSE LET c == Head(completed)
       IN  IF c[1] = p THEN <<<<c[2], c[3]>>>> \o completionsOf(p, Tail(completed))
           ELSE completionsOf(p, Tail(completed))

\* the conversions of an export: one for each stop of each palette
Conversions(palettes) ==
  {<<p, s>> : p \in 1..Len(palettes), s \in 1..2} \cap
  UNION {{<<p, s>> : s \in 1..Len(palettes[p].stops)} : p \in 1..Len(palettes)}

Started(c) == {<<c[i][1], c[i][2]>> : i \in 1..Len(c)}

Exporting == calc # None /\ calc.tag = "Export" /\ calc.doc = None

StartPaletteExport(palette) ==
  /\ calc = None
  /\ calc' = [tag |-> "Export", kind |-> "palette", batch |-> None,
              palettes |-> <<palette>>, completed |-> <<>>, doc |-> None]
  /\ UNCHANGED <<apiVars, ecc, cli, dtcg, pattern>>

StartBatchExport(b) ==
  /\ calc = None
  /\ calc' = [tag |-> "Export", kind |-> "batch", batch |-> b,
              palettes |-> b.palettes, completed |-> <<>>, doc |-> None]
  /\ UNCHANGED <<apiVars, ecc, cli, dtcg, pattern>>

\* the fiber of stop s of palette p ends with its fallback
CompleteConversion(p, s) ==
  /\ Exporting
  /\ <<p, s>> \in Conversions(calc.palettes) \ Started(calc.completed)
  /\ calc' = [calc EXCEPT !.completed =
                Append(@, <<p, s, generateHexFallback(calc.palettes[p].stops[s])>>)]
  /\ UNCHANGED <<apiVars, ecc, cli, dtcg, pattern>>

hexFallbacksOf(p) ==
  forEachCollected(Len(calc.palettes[p].stops), completionsOf(p, calc.completed))

\* every fiber has ended: the generator goes on to build the document
FinishExport ==
  /\ Exporting
  /\ Started(calc.completed) = Conversions(calc.palettes)
  /\ calc' = [calc EXCEPT !.doc =
                IF calc.kind = "palette"
                THEN Success(paletteDocument(calc.palettes[1], hexFallbacksOf(1)))
                ELSE Success(batchDocument(calc.batch,
                                           [p \in 1..Len(calc.palettes) |->
                                              [hexFallbacks |-> hexFallbacksOf(p),
                                               palette |-> calc.palettes[p]]]))]
  /\ UNCHANGED <<apiVars, ecc, cli, dtcg, pattern>>

NextExport ==
  \/ \E palette \in ExportPalettes : StartPaletteExport(palette)
  \/ \E b \in ExportBatches : StartBatchExport(b)
  \/ \E p \in 1..MaxPalettes, s \in 1..2 : CompleteConversion(p, s)
  \/ FinishExport

SpecExport == Init /\ [][NextExport]_vars

\* ---------------------------------------------------------------------------
\* The export configuration
\* ---------------------------------------------------------------------------

\* Option of effect
OptionNone == [tag |-> "OptionNone"]
OptionSome(v) == [tag |-> "OptionSome", value |-> v]

\* A path is a string, here the sequence of its parts: a letter, a blank, a null
\* byte or an extension
MaxPathLen == 2
PathParts == {"a", " ", "NUL", ".json", ".JSON", ".txt"}
String(parts) == [parts |-> parts]
Paths == {String(parts) : parts \in UNION {[1..n -> PathParts] : n \in 0..MaxPathLen}}

\* JSONPathSchema: a non-empty string without null bytes and without blanks at
\* its ends, which ends with .json or .JSON
JSONPath(path) ==
  IF /\ Len(path.parts) > 0
     /\ \A i \in 1..Len(path.parts) : path.parts[i] # "NUL"
     /\ path.parts[1] # " " /\ path.parts[Len(path.parts)] # " "
     /\ path.parts[Len(path.parts)] \in {".json", ".JSON"}
  THEN Success(path) ELSE Failure("ParseError")

\* if (jsonPathValue): undefined and the empty string are falsy
Truthy(jsonPathValue) == jsonPathValue # Undefined /\ jsonPathValue # String(<<>>)

\* O.getOrUndefined
getOrUndefined(option) == IF option = OptionNone THEN Undefined ELSE option.value

\* The generator of buildExportConfig, given what validateExportTarget and
\* promptForJsonPath yield when they are run; ran holds the effects it has run
buildExportConfig(exportTarget, exportPath, prompted) ==
  IF exportTarget.tag = "Failure" THEN [exit |-> exportTarget, ran |-> {}]
  ELSE IF exportTarget.value = "none" THEN [exit |-> Success(OptionNone), ran |-> {}]
  ELSE LET jsonPathValue == getOrUndefined(exportPath)
           step == IF exportTarget.value = "json"
                   THEN IF Truthy(jsonPathValue)
                        THEN [yield |-> JSONPath(jsonPathValue), ran |-> {"JSONPath"}]
                        ELSE [yield |-> prompted, ran |-> {"promptForJsonPath"}]
                   ELSE [yield |-> Success(Undefined), ran |-> {}]
       IN  IF step.yield.tag = "Failure" THEN [exit |-> step.yield, ran |-> step.ran]
           ELSE [exit |-> Success(OptionSome([target |-> exportTarget.value,
                                              jsonPath |-> step.yield.value])),
                 ran |-> step.ran]

\* what validateExportTarget yields: one of the three targets, or a failure
ExportTargets == {"none", "clipboard", "json"}
TargetOutcomes == {Success(t) : t \in ExportTargets} \cup {Failure("ValidationError")}

\* what promptForJsonPath yields when it is run: a validated path, or a failure
PromptOutcomes == {Success(String(<<"a", ".json">>)), Failure("CancelledError")}

ExportPaths == {OptionNone} \cup {OptionSome(path) : path \in Paths}

BuildExportConfig(exportTarget, exportPath, prompted) ==
  LET run == buildExportConfig(exportTarget, exportPath, prompted)
  IN  /\ calc' = [tag |-> "BuildExportConfig", exportTarget |-> exportTarget,
                  exportPath |-> exportPath, prompted |-> prompted,
                  exit |-> run.exit, ran |-> run.ran]
      /\ UNCHANGED <<apiVars, ecc, cli, dtcg, pattern>>

NextExportConfig ==
  /\ calc = None
  /\ \E exportTarget \in TargetOutcomes, exportPath \in ExportPaths,
        prompted \in PromptOutcomes :
       BuildExportConfig(exportTarget, exportPath, prompted)

SpecExportConfig == Init /\ [][NextExportConfig]_vars

\* ---------------------------------------------------------------------------
\* The scan of the arguments, turn by turn
\* ---------------------------------------------------------------------------

\* what an argument may be: a flag, or a word that is a format as well as a colour
ScanTokens == {"--source-bg", "--target-bg", "--format", "oklch"}

\* the most arguments of a scan, or of one after the four arguments that give
\* --source-bg twice, the first time with a flag as its value
MaxScanArgs == 5
MaxScanTail == 3
SourceTwice == <<"--source-bg", "--target-bg", "--source-bg", "oklch">>

ScanArgvs ==
  {<<"node", "scripts/contrast-compensate.ts">> \o args :
     args \in UNION {[1..n -> ScanTokens] : n \in 0..MaxScanArgs}}
  \cup
  {<<"node", "scripts/contrast-compensate.ts">> \o SourceTwice \o args :
     args \in UNION {[1..n -> ScanTokens] : n \in 0..MaxScanTail}}

Scanning == calc # None /\ calc.tag = "Scan" /\ calc.exit = None

\* the statements before the loop
StartScan(argv) ==
  /\ calc = None
  /\ calc' = [tag |-> "Scan", args |-> SubSeq(argv, 3, Len(argv)),
              st |-> parseArgsLocals, visited |-> <<>>, exit |-> None]
  /\ UNCHANGED <<apiVars, ecc, cli, dtcg, pattern>>

\* one turn of the loop; visited holds the indexes the switch has looked at
ScanTurn ==
  /\ Scanning
  /\ calc.st.thrown = None /\ calc.st.i < Len(calc.args)
  /\ calc' = [calc EXCEPT !.st = parseArgsTurn(calc.args, calc.st),
                          !.visited = Append(@, calc.st.i)]
  /\ UNCHANGED <<apiVars, ecc, cli, dtcg, pattern>>

\* the loop is left: the checks after it and the return, or the Error thrown
FinishScan ==
  /\ Scanning
  /\ calc.st.thrown # None \/ ~(calc.st.i < Len(calc.args))
  /\ calc' = [calc EXCEPT !.exit = parseArgsExit(calc.st)]
  /\ UNCHANGED <<apiVars, ecc, cli, dtcg, pattern>>

NextScan ==
  \/ \E argv \in ScanArgvs : StartScan(argv)
  \/ ScanTurn
  \/ FinishScan

\* the try block is sequential code: once called it runs to its end
SpecScan == Init /\ [][NextScan]_vars /\ WF_vars(NextScan)

\* ---------------------------------------------------------------------------
\* Properties
\* ---------------------------------------------------------------------------

\* |a - b| <= tol; false when a or b is not a number
Within(a, b, tol) == fLe(fAbs(fSub(a, b)), tol)

FiniteXYZ(xyz) == IsFinite(xyz.X) /\ IsFinite(xyz.Y) /\ IsFinite(xyz.Z)
FiniteCorrelates(v) ==
  /\ IsFinite(v.J) /\ IsFinite(v.C) /\ IsFinite(v.h)
  /\ IsFinite(v.M) /\ IsFinite(v.s) /\ IsFinite(v.Q)

\* the viewing conditions are those of makeViewingConditions(64, Yb, D65) with Yb
\* one of 10, 20, 50, 100
ScreenConditions ==
  /\ vcArgs # None
  /\ vcArgs.La = Dec(64, 0)
  /\ vcArgs.Yb \in {Dec(10, 0), Dec(20, 0), Dec(50, 0), Dec(100, 0)}
  /\ vcArgs.whitePoint = D65_WHITE_POINT
  /\ vcArgs.surround = "average"

\* the inputs of the makeViewingConditions call made are valid
ValidConditions ==
  /\ vcArgs # None
  /\ fGt(vcArgs.La, Zero)
  /\ fGt(vcArgs.Yb, Zero)
  /\ fGt(vcArgs.whitePoint.Y, Zero)
  /\ resolveSurround(surroundOrDefault(vcArgs.surround)) # Undefined

\* C1: under the screen conditions (La = 64, Yb in {10, 20, 50, 100}, D65), inverse
\* applied to the J, C, h that forward returned for an xyz with components in
\* [0, 100] succeeds and returns X, Y, Z each within 0.1 of that xyz.
C1_RoundTrip ==
  (ScreenConditions /\ inv # None)
    => /\ inv.tag = "Success"
       /\ Within(inv.value.X, fwArgs.X, Dec(1, -1))
       /\ Within(inv.value.Y, fwArgs.Y, Dec(1, -1))
       /\ Within(inv.value.Z, fwArgs.Z, Dec(1, -1))

\* C2: makeViewingConditions fails with ComputationError whenever La <= 0 or
\* Yb <= 0 or whitePoint.Y <= 0, and returns no viewing conditions for such inputs.
C2_RejectsNonPositive ==
  (vc # None /\ (fLe(vcArgs.La, Zero) \/ fLe(vcArgs.Yb, Zero)
                   \/ fLe(vcArgs.whitePoint.Y, Zero)))
    => (vc.tag = "Failure" /\ vc.error.errTag = "ComputationError")

\* C3: forward and inverse never return a success value that holds a non-finite
\* number: they fail with CIECAM02Error instead.
C3_NoNonFiniteSuccess ==
  /\ (fw # None /\ fw.tag = "Success") => FiniteCorrelates(fw.value)
  /\ (inv # None /\ inv.tag = "Success") => FiniteXYZ(inv.value)

\* C4: whenever the brightness Q that forward computed is <= 0 (as for black),
\* forward returns saturation s = 0.
C4_SaturationGuard ==
  (fw # None /\ fw.tag = "Success" /\ fLe(fw.value.Q, Zero)) => fw.value.s = Zero

\* C10: for valid viewing conditions, forward(whitePoint, whitePoint, cond) yields
\* J within 1 of 100 and C < 3.
C10_WhitePoint ==
  (ValidConditions /\ fw # None /\ fwArgs = vcArgs.whitePoint)
    => /\ fw.tag = "Success"
       /\ Within(fw.value.J, Dec(100, 0), One)
       /\ fLt(fw.value.C, Dec(3, 0))

\* C5: a compensateBatch that succeeds returns as many colours as it was given,
\* the i-th being the result of compensateForBackground on the i-th input; an
\* empty batch succeeds with an empty array.
C5_BatchOrder ==
  (batch.tag = "Call")
    => /\ Len(batch.run.effects) = Len(batch.colors)
       /\ (batch.run.exit.tag = "Success")
            => /\ Len(batch.run.exit.value) = Len(batch.colors)
               /\ \A i \in 1..Len(batch.colors) :
                    batch.run.effects[i] = Success(batch.run.exit.value[i])
       /\ (Len(batch.colors) = 0) => (batch.run.exit = Success(<<>>))

C5_Witness ==
  /\ batch.tag = "Call"
  /\ batch.run.exit.tag = "Success"
  /\ Len(batch.colors) = MaxBatchLen
  /\ batch.colors[1] # batch.colors[2]
  /\ batch.run.exit.value[1] # batch.run.exit.value[2]

\* the indices of the batch's elements whose compensation fails
FailingElements ==
  {i \in 1..Len(batch.colors) : batch.run.effects[i].tag = "Failure"}
FirstFailing == CHOOSE i \in FailingElements : \A j \in FailingElements : i <= j

\* C6: when the compensation of some element fails, compensateBatch fails with the
\* error of the failing element of lowest index, returns no array, and has run no
\* element after that one.
C6_BatchFailFast ==
  (batch.tag = "Call" /\ FailingElements # {})
    => /\ batch.run.exit = Failure(batch.run.effects[FirstFailing].error)
       /\ batch.run.started = FirstFailing

C6_Witness ==
  /\ batch.tag = "Call"
  /\ batch.run.exit.tag = "Failure"
  /\ batch.run.started > 1
  /\ batch.run.started < Len(batch.colors)

\* l in [0, 1], c in [0, 0.5], h in [0, 360), alpha = 1
InRange(color) ==
  /\ fLe(Zero, color.l) /\ fLe(color.l, One)
  /\ fLe(Zero, color.c) /\ fLe(color.c, Half)
  /\ fLe(Zero, color.h) /\ fLt(color.h, Dec(360, 0))
  /\ color.alpha = One

HueDistance(a, b) ==
  LET d == fAbs(fSub(a, b))
  IN IF fGt(d, Dec(180, 0)) THEN fSub(Dec(360, 0), d) ELSE d

\* the call's result is a colour with l and c within 0.05 of those of color
CloseTo(call, color) ==
  /\ call.result.tag = "Success"
  /\ Within(call.result.value.l, color.l, Dec(5, -2))
  /\ Within(call.result.value.c, color.c, Dec(5, -2))

\* C8 as stated: compensating between two equal backgrounds returns, for every
\* in-gamut colour, a colour with l and c within 0.05 and hue within 5 degrees of
\* the input.
C8_IdentityAsStated ==
  (comp.tag = "Call" /\ comp.sourceBg = comp.targetBg /\ displayable(comp.color))
    => /\ CloseTo(comp, comp.color)
       /\ fLe(HueDistance(comp.result.value.h, comp.color.h), Dec(5, 0))

\* C8: compensating between two equal backgrounds lighter than black returns,
\* for every in-gamut colour, a colour with l and c within 0.05 of the input, and
\* with hue within 5 degrees when the input's chroma is at least 0.02.
C8_Identity ==
  (comp.tag = "Call" /\ comp.sourceBg = comp.targetBg /\ displayable(comp.color)
     /\ fGt(comp.sourceBg.l, Zero))
    => /\ CloseTo(comp, comp.color)
       /\ fGe(comp.color.c, Dec(2, -2))
            => fLe(HueDistance(comp.result.value.h, comp.color.h), Dec(5, 0))

C8_Witness ==
  /\ comp.tag = "Call"
  /\ comp.sourceBg = comp.targetBg
  /\ displayable(comp.color)
  /\ fGt(comp.sourceBg.l, Zero)
  /\ fGe(comp.color.c, Dec(2, -2))
  /\ comp.result.tag = "Success"
  /\ comp.result.value.c # comp.color.c

\* the gamut clamp of the call changed neither l nor c
Unclamped(call) ==
  /\ call.compensated.tag = "Success"
  /\ call.result.tag = "Success"
  /\ call.result.value.l = call.compensated.value.l
  /\ call.result.value.c = call.compensated.value.c

\* C9 as stated: compensating from A to B and the result back from B to A returns
\* a colour with l and c within 0.05 of the original.
C9_ReversibleAsStated == (back.tag = "Call") => CloseTo(back, comp.color)

\* C9: compensating from A to B and the result back from B to A returns a colour
\* with l and c within 0.05 of the original, when the gamut clamp changed neither
\* compensated colour.
C9_Reversible ==
  (back.tag = "Call" /\ Unclamped(comp) /\ Unclamped(back)) => CloseTo(back, comp.color)

C9_Witness ==
  /\ back.tag = "Call"
  /\ Unclamped(comp)
  /\ Unclamped(back)
  /\ comp.sourceBg # comp.targetBg
  /\ fGt(comp.color.c, Dec(1, -1))

\* C11: under valid viewing conditions, forward applied to the black
\* X = Y = Z = 0 succeeds and returns a J within 1 of 0.
C11_BlackInvariance ==
  (ValidConditions /\ fw # None /\ fwArgs = XYZ(Zero, Zero, Zero))
    => /\ fw.tag = "Success"
       /\ Within(fw.value.J, Zero, One)

\* forward was applied to black under valid conditions other than the default ones
C11_Witness ==
  /\ ValidConditions
  /\ vcArgs.surround = "dim"
  /\ fwArgs = XYZ(Zero, Zero, Zero)
  /\ fw.tag = "Success"

\* the failure of the call is typed as compensateForBackground declares: the
\* failure of a step before the clamp is returned as it is, a CIECAM02Error, and
\* the failure of the clamp is wrapped, with the clamp's error as the cause
ErrorTyped(call) ==
  /\ call.result.tag = "Failure"
       => call.result.error.errTag \in {"ContrastCompensationError", "CIECAM02Error"}
  /\ call.compensated.tag = "Failure"
       => /\ call.result = call.compensated
          /\ call.result.error.errTag = "CIECAM02Error"
  /\ (call.compensated.tag = "Success" /\ call.result.tag = "Failure")
       => call.result.error =
            ContrastCompensationError("Failed to gamut-clamp compensated color",
                                      clampToGamut(call.compensated.value).error)

\* the generator of compensateForBackground, given the failure as the outcome of
\* its first makeViewingConditions, ends with that failure: the later statements
\* and the clamp leave it as it is
PropagatesUnchanged(failure) ==
  LET env == yielded("sourceConditions", failure,
                     [color |-> BLUE, sourceBg |-> WHITE_BG, targetBg |-> DARK_BG,
                      exit |-> None])
  IN /\ compensateOutcome(compensateBody(7, 10, env)) = failure
     /\ clampCompensated(failure) = failure

C13_HueRange ==
  (ValidConditions /\ fw.tag = "Success")
    => fLe(Zero, fw.value.h) /\ fLt(fw.value.h, Dec(360, 0))

\* the three presets, by their labels
SurroundPresets ==
  [average |-> [F |-> Dec(10, -1), c |-> Dec(69, -2), Nc |-> Dec(10, -1)],
   dim |-> [F |-> Dec(9, -1), c |-> Dec(59, -2), Nc |-> Dec(95, -2)],
   dark |-> [F |-> Dec(8, -1), c |-> Dec(525, -3), Nc |-> Dec(8, -1)]]

\* C14: the surround of the conditions makeViewingConditions returns is the preset
\* of the label given, average (1.0, 0.69, 1.0), dim (0.9, 0.59, 0.95) or dark
\* (0.8, 0.525, 0.8), and the average preset when no label is given; a call with
\* any other label returns no conditions.
C14_SurroundPresets ==
  vc.tag = "Success"
    => /\ vcArgs.surround \in {"average", "dim", "dark", Omitted}
       /\ vc.value.surround =
            SurroundPresets[IF vcArgs.surround = Omitted THEN "average"
                            ELSE vcArgs.surround]

\* conditions were returned for a label other than average
C14_Witness == vc.tag = "Success" /\ vcArgs.surround = "dark"

AnglesAsStated ==
  <<Dec(2014, -2), Dec(90, 0), Dec(16425, -2), Dec(23753, -2), Dec(38014, -2)>>

\* what C20 says of a call with its upper bound left open: h' is h + 360 below
\* 20.14 and h otherwise, a segment was found, it is one of 0..3, its lower angle
\* is at most h', upper(h', the segment's upper angle) holds, and the factor is
\* the interpolation in that segment
SegmentSelected(call, strict) ==
  LET l == call.locals
  IN /\ ECCENTRICITY_HUE_ANGLES = AnglesAsStated
     /\ l.hp = (IF fLt(call.h, Dec(2014, -2)) THEN fAdd(call.h, Dec(360, 0)) ELSE call.h)
     /\ l.segmentIndex.tag = "Some"
     /\ l.i \in 0..3
     /\ l.i + 2 \in DOMAIN ECCENTRICITY_HUE_ANGLES
     /\ fLe(AnglesAsStated[l.i + 1], l.hp)
     /\ IF strict THEN fLt(l.hp, AnglesAsStated[l.i + 2])
        ELSE fLe(l.hp, AnglesAsStated[l.i + 2])
     /\ \A j \in 0..3 : fLe(AnglesAsStated[j + 1], l.hp) => j <= l.i
     /\ call.et = eccentricitySegment(l.hp, l.i)

\* C20 as stated: for a hue in [0, 360) the segment i chosen satisfies
\* ANGLES[i] <= h' < ANGLES[i + 1].
C20_SegmentAsStated == ecc.tag = "Call" => SegmentSelected(ecc, TRUE)

\* C20: for a hue h in [0, 360), h' is h + 360 when h < 20.14 and h otherwise, the
\* segment i chosen is the last of 0..3 with ANGLES[i] <= h', found without the
\* default, it satisfies ANGLES[i] <= h' <= ANGLES[i + 1] with i + 1 inside the
\* table, and the factor is the interpolation in it.
C20_Segment == ecc.tag = "Call" => SegmentSelected(ecc, FALSE)

\* a hue below 20.14 was wrapped into the last segment
C20_Witness ==
  /\ ecc.tag = "Call"
  /\ fLt(ecc.h, Dec(2014, -2))
  /\ ecc.locals.i = 3
  /\ fLt(ecc.locals.hp, Dec(38014, -2))

\* --- C16 ------------------------------------------------------------------

CliFlags == {"--source-bg", "--target-bg", "--format"}

\* the formats the statement names
StatedFormats == {"hex", "rgb", "oklch", "oklab"}

\* the arguments of the call made, without node and the script path
CliArgs == SubSeq(cli.argv, 3, Len(cli.argv))

CliFailsWithError == cli.exit.tag = "Failure" /\ cli.exit.error.errTag = "Error"

\* read word by word: the flag is one of the arguments; it is the last of them; an
\* argument that is no flag and does not follow one
Given(args, flag) == \E k \in 1..Len(args) : args[k] = flag
GivenLast(args, flag) == Len(args) > 0 /\ args[Len(args)] = flag
FollowsAFlag(args, k) == k > 1 /\ args[k - 1] \in CliFlags
PositionalGiven(args) ==
  \E k \in 1..Len(args) : args[k] \notin CliFlags /\ ~FollowsAFlag(args, k)
FormatMisfollowed(args) ==
  \E k \in 1..Len(args) : args[k] = "--format" /\ At(args, k) \notin StatedFormats
ValueFollowsEach(args, flag) ==
  \A k \in 1..Len(args) : args[k] = flag => At(args, k) \notin CliFlags \cup {Omitted}

\* the cases in which the statement promises an Error, and those it promises success
\* in, each taken in its narrowest sense
StatedToFail(args) ==
  \/ ~Given(args, "--source-bg") \/ GivenLast(args, "--source-bg")
  \/ ~Given(args, "--target-bg") \/ GivenLast(args, "--target-bg")
  \/ FormatMisfollowed(args)
  \/ ~PositionalGiven(args)
StatedToSucceed(args) ==
  /\ Given(args, "--source-bg") /\ ValueFollowsEach(args, "--source-bg")
  /\ Given(args, "--target-bg") /\ ValueFollowsEach(args, "--target-bg")
  /\ ~FormatMisfollowed(args)
  /\ PositionalGiven(args)

\* C16 as stated: parseArgs fails with an Error when --source-bg or --target-bg is
\* not among the arguments or is the last of them, when --format is followed by
\* anything other than hex, rgb, oklch or oklab, or when no positional colour is
\* given; when every flag given is followed by a value of its kind and a colour
\* is given it succeeds, with format "hex" when --format is not given.
C16_ArgumentsAsStated ==
  cli # None =>
    /\ StatedToFail(CliArgs) => CliFailsWithError
    /\ StatedToSucceed(CliArgs) =>
         /\ cli.exit.tag = "Success"
         /\ ~Given(CliArgs, "--format") => cli.exit.value.format = "hex"

\* the argument at k is read as a flag: it is one of the three and is not the value
\* of a flag read just before it
RECURSIVE ReadAsFlag(_, _)
ReadAsFlag(args, k) ==
  /\ args[k] \in CliFlags
  /\ k = 1 \/ ~ReadAsFlag(args, k - 1)

ReadAsValue(args, k) == k > 1 /\ ReadAsFlag(args, k - 1)
FlagRead(args, flag) == \E k \in 1..Len(args) : args[k] = flag /\ ReadAsFlag(args, k)
FlagReadLast(args, flag) ==
  Len(args) > 0 /\ args[Len(args)] = flag /\ ReadAsFlag(args, Len(args))
FormatRejected(args) ==
  \E k \in 1..Len(args) :
    args[k] = "--format" /\ ReadAsFlag(args, k) /\ At(args, k) \notin StatedFormats
ColourRead(args) ==
  \E k \in 1..Len(args) : ~ReadAsFlag(args, k) /\ ~ReadAsValue(args, k)
ValueOfLast(args, flag) ==
  LET last == CHOOSE k \in 1..Len(args) :
                /\ args[k] = flag /\ ReadAsFlag(args, k)
                /\ \A j \in (k + 1)..Len(args) : ~(args[j] = flag /\ ReadAsFlag(args, j))
  IN  At(args, last)

FailsAsRead(args) ==
  \/ ~FlagRead(args, "--source-bg") \/ FlagReadLast(args, "--source-bg")
  \/ ~FlagRead(args, "--target-bg") \/ FlagReadLast(args, "--target-bg")
  \/ FormatRejected(args)
  \/ ~ColourRead(args)

\* C16: reading the arguments from the left, where each of the three flags takes
\* the argument after it as its value whatever that is, and every argument that is
\* neither read as a flag nor as a value is a colour, parseArgs fails with an Error
\* exactly when --source-bg or --target-bg is never read as a flag or is read as
\* one at the very end, when a --format read as a flag is followed by anything
\* other than hex, rgb, oklch or oklab, or when no colour is read; otherwise it
\* succeeds with the values of the last flags read, format "hex" when --format is
\* never read as a flag.
C16_Arguments ==
  cli # None =>
    IF FailsAsRead(CliArgs) THEN CliFailsWithError
    ELSE /\ cli.exit.tag = "Success"
         /\ cli.exit.value.sourceBg = ValueOfLast(CliArgs, "--source-bg")
         /\ cli.exit.value.targetBg = ValueOfLast(CliArgs, "--target-bg")
         /\ Len(cli.exit.value.colors) > 0
         /\ cli.exit.value.format =
              IF FlagRead(CliArgs, "--format") THEN ValueOfLast(CliArgs, "--format")
              ELSE "hex"

\* a call that succeeds with format "hex" although --format is among the arguments,
\* taken as the value of --source-bg
C16_Witness ==
  /\ cli # None
  /\ cli.exit.tag = "Success"
  /\ cli.exit.value.format = "hex"
  /\ cli.exit.value.sourceBg = "--format"
  /\ Given(CliArgs, "--format")

\* --- C17 ------------------------------------------------------------------

\* obj[key] of JavaScript: undefined for a key the object has not, or of undefined
Property(obj, key) == IF obj # Undefined /\ key \in DOMAIN obj THEN obj[key] ELSE Undefined
HasProperty(obj, key) == obj # Undefined /\ key \in DOMAIN obj

\* result.$extensions?.[EXTENSION_NAMESPACE] of the document made
BatchExtensionOf(doc) == Property(Property(doc, "$extensions"), EXTENSION_NAMESPACE)

BatchExtensionAsStated(call) ==
  LET extensions == BatchExtensionOf(call.doc)
  IN  /\ HasProperty(extensions, "failures") <=> Len(call.batch.failures) > 0
      /\ HasProperty(extensions, "failures") => extensions.failures = call.batch.failures
      /\ HasProperty(extensions, "outputFormat")
      /\ Property(extensions, "outputFormat") = call.batch.outputFormat
      /\ HasProperty(extensions, "generatedAt")
      /\ Property(extensions, "generatedAt") = call.batch.generatedAt

\* C17: the batch extension metadata of the document batchResultToDTCG makes has a
\* failures key if and only if batch.failures is non-empty, and then its value is
\* batch.failures; outputFormat and generatedAt are always there, with the values
\* of the batch.
C17_BatchExtension == dtcg # None => BatchExtensionAsStated(dtcg)

\* the same for the batches without a palette named as the document's own key
C17_BatchExtensionOfPlainNames ==
  (dtcg # None /\ \A i \in 1..Len(dtcg.batch.palettes) :
                    dtcg.batch.palettes[i].name # "$extensions")
    => BatchExtensionAsStated(dtcg)

\* an export of a batch with two palettes and a failure, the failure kept
C17_Witness ==
  /\ dtcg # None
  /\ Len(dtcg.batch.palettes) = 2
  /\ Len(dtcg.batch.failures) = 1
  /\ HasProperty(BatchExtensionOf(dtcg.doc), "failures")

\* --- C18 ------------------------------------------------------------------

LightnessAt(call, i) == call.smoothed.transforms[STOP_POSITIONS[i]].lightnessMultiplier

\* the step of lightness from the stop at i to the next one
LightnessStep(call, i) == fSub(LightnessAt(call, i), LightnessAt(call, i + 1))

LightnessSteps == 1..(Len(STOP_POSITIONS) - 1)

AnchoredAndDecreasing(call) ==
  /\ call.smoothed.transforms[call.given.referenceStop].lightnessMultiplier = One
  /\ \A i \in LightnessSteps : fGt(LightnessAt(call, i), LightnessAt(call, i + 1))

\* C18 as stated: the lightness multipliers of the smoothed pattern are exactly 1.0
\* at the reference stop, fall strictly from stop 100 to stop 1000, and the
\* difference between consecutive stops is the same number for all nine steps.
C18_LightnessExactlyLinear ==
  pattern # None =>
    /\ AnchoredAndDecreasing(pattern)
    /\ \A i, j \in LightnessSteps : LightnessStep(pattern, i) = LightnessStep(pattern, j)

\* what two steps may differ by: the rounding of the divisions by the value at the
\* reference stop, a few units of the last digit kept
StepTolerance == Dec(1, -5)

\* C18: the lightness multipliers of the smoothed pattern are exactly 1.0 at the
\* reference stop, fall strictly from stop 100 to stop 1000, and the differences
\* between consecutive stops agree for all nine steps up to the rounding of the
\* arithmetic.
C18_LightnessLinear ==
  pattern # None =>
    /\ AnchoredAndDecreasing(pattern)
    /\ \A i, j \in LightnessSteps :
         Within(LightnessStep(pattern, i), LightnessStep(pattern, j), StepTolerance)

\* a pattern smoothed about stop 500 whose steps differ in the last digit
C18_Witness ==
  /\ pattern # None
  /\ pattern.given.referenceStop = 500
  /\ LightnessAt(pattern, 5) = One
  /\ \E i, j \in LightnessSteps : LightnessStep(pattern, i) # LightnessStep(pattern, j)

\* --- C19 ------------------------------------------------------------------

ChromaAt(call, position) == call.smoothed.transforms[position].chromaMultiplier

\* C19: the chroma multiplier of the smoothed pattern is 1.0 at the reference stop,
\* no stop has a greater one, and none has one below 0.
C19_ChromaPeak ==
  pattern # None =>
    /\ ChromaAt(pattern, pattern.given.referenceStop) = One
    /\ \A position \in StopPositions :
         /\ fLe(ChromaAt(pattern, position), ChromaAt(pattern, pattern.given.referenceStop))
         /\ fGe(ChromaAt(pattern, position), Zero)

\* the same for the patterns whose chroma at the two ends is at most 1 on average
C19_ChromaPeakOfFadingEnds ==
  (pattern # None
   /\ fLe(fAdd(pattern.given.transforms[100].chromaMultiplier,
               pattern.given.transforms[1000].chromaMultiplier), Two))
    => /\ ChromaAt(pattern, pattern.given.referenceStop) = One
       /\ \A position \in StopPositions :
            /\ fLe(ChromaAt(pattern, position), One)
            /\ fGe(ChromaAt(pattern, position), Zero)

\* --- C21 ------------------------------------------------------------------

\* C21: for every hue h in [0, 360), the hues on a control point of the table
\* included, eccentricityFactor(h) is a finite number above 0.
C21_ValidEccentricity ==
  ecc # None => IsFinite(ecc.et) /\ fGt(ecc.et, Zero)

\* the same for the hues other than the first control point, 20.14
C21_ValidEccentricityOffFirstAngle ==
  (ecc # None /\ ecc.h # ECCENTRICITY_HUE_ANGLES[1])
    => IsFinite(ecc.et) /\ fGt(ecc.et, Zero)

\* --- C22 ------------------------------------------------------------------

\* the locals of the inverse call made, after its steps 1 to 5
inverseLocals ==
  inverseBody(1, 16, [correlates |-> inverseArgs[1], whitePoint |-> inverseArgs[2],
                      conditions |-> inverseArgs[3]])

\* t as step 10 of forward has it, of the a, b, Ra, Ga, Ba and p1 of inverse
ForwardChromaOf(env) ==
  fDiv(fMul(env.p1, fSqrt(fAdd(fMul(env.a, env.a), fMul(env.b, env.b)))),
       fAdd(fAdd(env.Ra, env.Ga), fDiv(fMul(Dec(21, 0), env.Ba), Dec(20, 0))))

\* a and b are of one part in a thousand of what t asks for
ChromaRelationHolds(env) ==
  Within(ForwardChromaOf(env), env.t, fAdd(fMul(Dec(1, -3), fAbs(env.t)), Dec(1, -6)))

\* C22: in inverse, the a and b of step 4 and the Ra, Ga, Ba of step 5 satisfy
\* t = (50000/13) Nc Ncb et sqrt(a^2 + b^2) / (Ra + Ga + 21 Ba / 20) for the t of
\* step 2, up to the rounding of the arithmetic.
C22_ChromaRelation ==
  (ScreenConditions /\ inv # None /\ IsFinite(inverseLocals.t))
    => ChromaRelationHolds(inverseLocals)

\* --- C23 ------------------------------------------------------------------

\* C23: with p2 = 2 Ra + Ga + Ba / 20, a = Ra - 12 Ga / 11 + Ba / 11 and
\* b = (Ra + Ga - 2 Ba) / 9, the expressions of step 5 of inverse give back Ra, Ga
\* and Ba: the very numbers where every step of the calculation is exact, the
\* numbers up to rounding otherwise.
C23_LinearSolve ==
  (calc # None /\ calc.tag = "OpponentRoundTrip") =>
    IF calc.whole THEN calc.solved = calc.given
    ELSE \A i \in 1..3 : Within(calc.solved[i], calc.given[i], Dec(1, -4))

\* responses all different and none of them 0, given back as they were
C23_Witness ==
  /\ calc # None /\ calc.tag = "OpponentRoundTrip" /\ calc.whole
  /\ calc.given[1] # calc.given[2] /\ calc.given[2] # calc.given[3]
  /\ calc.given[1] # calc.given[3]
  /\ \A i \in 1..3 : calc.given[i] # Zero
  /\ calc.solved = calc.given

\* --- C24 ------------------------------------------------------------------

\* the compressed value less 0.1 is below 400 in magnitude, and the inverse gives
\* back v, up to rounding, with its sign
RecoversCone(c) ==
  /\ fLt(fAbs(fSub(c.adapted, POST_ADAPTATION_OFFSET)), CONE_RESPONSE_SCALE)
  /\ Within(c.back, c.v, fAdd(fMul(Dec(1, -3), fAbs(c.v)), Dec(1, -6)))
  /\ Sgn(c.back) = Sgn(c.v)

\* C24 as stated: for every cone value v and every Fl > 0 the compressed value less
\* 0.1 has a magnitude below 400 and inverseNonlinearAdaptation gives back v, up
\* to rounding, with the sign of v.
C24_RoundTripOfEvery ==
  (calc # None /\ calc.tag = "AdaptationRoundTrip") => RecoversCone(calc)

\* C24: the same for the cone values of magnitude up to 50000.
C24_RoundTrip ==
  (calc # None /\ calc.tag = "AdaptationRoundTrip"
   /\ fLe(fAbs(calc.v), Dec(5, MaxDecade)))
    => RecoversCone(calc)

\* a negative cone value given back
C24_Witness ==
  /\ calc # None /\ calc.tag = "AdaptationRoundTrip"
  /\ calc.v = Dec(-5, 1)
  /\ fLt(calc.adapted, Zero)
  /\ RecoversCone(calc)

\* --- C25 ------------------------------------------------------------------

IsUnitVector(v) == AbsInt(v[1]) + AbsInt(v[2]) + AbsInt(v[3]) = 1

\* C25 as stated: each product M M_INV is the identity matrix: applied to a unit
\* vector, the two matrices in turn give that vector exactly.
C25_ExactInverses ==
  (calc # None /\ calc.tag = "MatrixRoundTrip" /\ IsUnitVector(calc.v))
    => calc.deviation = <<0, 0, 0>>

\* C25: each product M M_INV is the identity matrix to within 5e-7 in every entry
\* (the deviation of a vector is at most 5e-7 for each unit of its components),
\* and in the arithmetic of the program each pair, and the chain of inverse after
\* the chain of forward, gives a vector back to within 1e-5.
C25_Inverses ==
  (calc # None /\ calc.tag = "MatrixRoundTrip") =>
    \A i \in 1..3 :
      /\ AbsInt(calc.deviation[i])
           <= 5 * calc.units * (AbsInt(calc.v[1]) + AbsInt(calc.v[2]) + AbsInt(calc.v[3]))
      /\ Within(calc.computed[i], FromInt(calc.v[i]), Dec(1, -5))
      /\ Within(calc.chain[i], FromInt(calc.v[i]), Dec(1, -5))

\* a column of M_CAT02 M_CAT02_INV that is off the identity, by less than 5e-7
C25_Witness ==
  /\ calc # None /\ calc.tag = "MatrixRoundTrip"
  /\ calc.pair = "CAT02_after_INV" /\ calc.v = <<1, 0, 0>>
  /\ calc.deviation # <<0, 0, 0>>
  /\ \A i \in 1..3 : AbsInt(calc.deviation[i]) <= 5 * calc.units

\* --- C26 ------------------------------------------------------------------

\* the fields of the viewing conditions that the background luminance has no part in
FieldsOffBackground == {"La", "surround", "k", "Fl", "D", "adaptedWhiteRgc"}

\* the fields that follow the background luminance
FieldsOfBackground == {"Yb", "n", "Nbb", "Ncb", "z", "Aw"}

SameOffBackground(c1, c2) == \A f \in FieldsOffBackground : c1[f] = c2[f]

\* C26: for fixed La, whitePoint and surround the fields La, surround, k, Fl, D and
\* adaptedWhiteRgc of makeViewingConditions do not depend on Yb (nor does its
\* failure); the two conditions of compensateForBackground, with La = 64 and the
\* average surround, differ in Yb, n, Nbb, Ncb, z and Aw at most, and step 8 of
\* inverse divides by the scaling that step 1 of forward multiplied by.
C26_BackgroundIndependence ==
  /\ (calc # None /\ calc.tag = "TwoBackgrounds") =>
       /\ calc.first.tag = calc.second.tag
       /\ calc.first.tag = "Success" =>
            /\ DOMAIN calc.first.value = FieldsOffBackground \cup FieldsOfBackground
            /\ SameOffBackground(calc.first.value, calc.second.value)
  /\ (calc # None /\ calc.tag = "CompensationConditions") =>
       /\ DOMAIN calc.source = FieldsOffBackground \cup FieldsOfBackground
       /\ SameOffBackground(calc.source, calc.target)
       /\ calc.source.La = SCREEN_ADAPTING_LUMINANCE
       /\ calc.source.surround = SURROUND_AVERAGE
       /\ \A i \in 1..3 :
            /\ adaptScale(calc.source.D, D65_WHITE_POINT, calc.whiteRgb[i])
                 = adaptScale(calc.target.D, D65_WHITE_POINT, calc.whiteRgb[i])
            /\ Within(calc.undone[i], calc.rgb[i],
                      fAdd(fMul(Dec(1, -5), fAbs(calc.rgb[i])), Dec(1, -6)))

\* two backgrounds of different luminance whose conditions differ, and a
\* compensation between two such backgrounds
C26_Witness ==
  /\ calc # None /\ calc.tag = "CompensationConditions"
  /\ calc.source.Yb # calc.target.Yb
  /\ calc.source.Aw # calc.target.Aw
  /\ calc.source.z # calc.target.z
  /\ calc.rgc # calc.rgb
  /\ calc.rgb # <<Zero, Zero, Zero>>

\* --- C27 ------------------------------------------------------------------

Exported == calc # None /\ calc.tag = "Export" /\ calc.doc # None

\* palette p is the one the document keeps under its name, stop s the one the
\* palette keeps under its position: no later one has the same
KeptPalette(p) ==
  \A q \in (p + 1)..Len(calc.palettes) : calc.palettes[q].name # calc.palettes[p].name

KeptStop(p, s) ==
  \A t \in (s + 1)..Len(calc.palettes[p].stops) :
    calc.palettes[p].stops[t].position # calc.palettes[p].stops[s].position

\* the token of stop s of palette p in the exported document
TokenOf(p, s) ==
  Property(Property(calc.doc.value, calc.palettes[p].name),
           ToString(calc.palettes[p].stops[s].position))

ValueOf(p, s) == Property(TokenOf(p, s), "$value")

Convertible(stop) == oklchToHex(stop.color).tag = "Success"

\* C27: the export never fails; a stop whose oklchToHex fails still has its token,
\* with colorSpace "oklch" and its three components and no hex, the other stops have
\* their hex, and alpha is in $value exactly when the alpha of the stop is not 1.
C27_FallbackOmitted ==
  Exported =>
    /\ calc.doc.tag = "Success"
    /\ \A p \in 1..Len(calc.palettes) : \A s \in 1..Len(calc.palettes[p].stops) :
         (KeptPalette(p) /\ KeptStop(p, s)) =>
           LET stop == calc.palettes[p].stops[s]
           IN  /\ TokenOf(p, s) # Undefined
               /\ TokenOf(p, s)["$type"] = "color"
               /\ ValueOf(p, s).colorSpace = "oklch"
               /\ ValueOf(p, s).components = <<stop.color.l, stop.color.c, stop.color.h>>
               /\ HasProperty(ValueOf(p, s), "hex") <=> Convertible(stop)
               /\ HasProperty(ValueOf(p, s), "alpha") <=> stop.color.alpha # One
               /\ HasProperty(ValueOf(p, s), "alpha") =>
                    ValueOf(p, s).alpha = stop.color.alpha

\* an exported palette with a stop that has no hex, after a translucent stop that
\* has one
C27_Witness ==
  /\ Exported
  /\ \E p \in 1..Len(calc.palettes) :
       /\ KeptPalette(p)
       /\ Len(calc.palettes[p].stops) = 2
       /\ KeptStop(p, 1)
       /\ ~Convertible(calc.palettes[p].stops[2])
       /\ ~HasProperty(ValueOf(p, 2), "hex")
       /\ HasProperty(ValueOf(p, 1), "hex")
       /\ HasProperty(ValueOf(p, 1), "alpha")
       /\ ~HasProperty(ValueOf(p, 2), "alpha")

\* --- C28 ------------------------------------------------------------------

DistinctNames ==
  \A p, q \in 1..Len(calc.palettes) :
    p # q => calc.palettes[p].name # calc.palettes[q].name

DistinctPositions ==
  \A p \in 1..Len(calc.palettes) : \A s, t \in 1..Len(calc.palettes[p].stops) :
    s # t => calc.palettes[p].stops[s].position # calc.palettes[p].stops[t].position

\* the keys a document or a palette has of its own
OwnKeys == {"$type", "$description", "$extensions"}

\* the fibers did not end in the order of the stops
OutOfOrder ==
  \E i, j \in 1..Len(calc.completed) :
    /\ i < j
    /\ \/ calc.completed[i][1] > calc.completed[j][1]
       \/ /\ calc.completed[i][1] = calc.completed[j][1]
          /\ calc.completed[i][2] > calc.completed[j][2]

\* C28: whatever the order in which the concurrent conversions end, for palettes of
\* distinct names and stops of distinct positions the token under the position of
\* a stop has the hex computed from the colour of that stop, of that palette, and
\* the document has one entry for each palette and one token for each stop.
C28_FallbackOfOwnStop ==
  (Exported /\ DistinctNames /\ DistinctPositions) =>
    /\ \A p \in 1..Len(calc.palettes) :
         LET palette == calc.palettes[p]
             entry == Property(calc.doc.value, palette.name)
         IN  /\ entry # Undefined
             /\ Cardinality({ToString(palette.stops[s].position) :
                               s \in 1..Len(palette.stops)} \cap DOMAIN entry)
                  = Len(palette.stops)
             /\ DOMAIN entry \ OwnKeys
                  = {ToString(palette.stops[s].position) : s \in 1..Len(palette.stops)}
             /\ \A s \in 1..Len(palette.stops) :
                  /\ Convertible(palette.stops[s]) =>
                       Property(ValueOf(p, s), "hex") = oklchToHex(palette.stops[s].color).value
                  /\ TokenOf(p, s)["$extensions"][EXTENSION_NAMESPACE].position
                       = palette.stops[s].position
    /\ Cardinality({calc.palettes[p].name : p \in 1..Len(calc.palettes)}
                     \cap DOMAIN calc.doc.value) = Len(calc.palettes)
    /\ DOMAIN calc.doc.value \ OwnKeys
         \subseteq {calc.palettes[p].name : p \in 1..Len(calc.palettes)}

\* a batch of two palettes of two stops each, exported after its conversions ended
\* out of order
C28_Witness ==
  /\ Exported /\ DistinctNames /\ DistinctPositions
  /\ calc.kind = "batch"
  /\ Len(calc.palettes) = 2
  /\ Len(calc.completed) = 4
  /\ calc.completed[1][1] = 2 /\ calc.completed[1][2] = 2
  /\ calc.completed[4][1] = 1 /\ calc.completed[4][2] = 2
  /\ OutOfOrder
  /\ Convertible(calc.palettes[1].stops[1])
  /\ Property(ValueOf(1, 1), "hex") # Property(ValueOf(1, 2), "hex")

\* --- C29 ------------------------------------------------------------------

ConfigBuilt == calc # None /\ calc.tag = "BuildExportConfig"

TargetIs(t) == calc.exportTarget.tag = "Success" /\ calc.exportTarget.value = t

Supplied == calc.exportPath # OptionNone

\* the result for target "json" as the statement gives it: of a supplied path its
\* validation alone, of none supplied the prompt alone
JsonAsStated ==
  IF Supplied
  THEN /\ calc.ran = {"JSONPath"}
       /\ calc.exit = IF JSONPath(calc.exportPath.value).tag = "Failure"
                      THEN JSONPath(calc.exportPath.value)
                      ELSE Success(OptionSome([target |-> "json",
                                               jsonPath |-> calc.exportPath.value]))
  ELSE /\ calc.ran = {"promptForJsonPath"}
       /\ calc.exit = IF calc.prompted.tag = "Failure" THEN calc.prompted
                      ELSE Success(OptionSome([target |-> "json",
                                               jsonPath |-> calc.prompted.value]))

ConfigAsStated ==
  /\ calc.exit = Success(OptionNone) <=> TargetIs("none")
  /\ TargetIs("json") => JsonAsStated
  /\ TargetIs("clipboard") =>
       /\ calc.ran = {}
       /\ calc.exit = Success(OptionSome([target |-> "clipboard", jsonPath |-> Undefined]))

\* C29: buildExportConfig returns None exactly when the validated target is "none";
\* for "json" the config has the supplied path after validation (failure if it is
\* invalid) or, when none was supplied, the path of the prompt; for "clipboard"
\* jsonPath is undefined and neither the validation nor the prompt is run.
C29_ExportConfig == ConfigBuilt => ConfigAsStated

\* the same for every supplied path but the empty one
C29_ExportConfigOfNonEmptyPaths ==
  (ConfigBuilt /\ calc.exportPath # OptionSome(String(<<>>))) => ConfigAsStated

\* a json target with a valid path supplied, validated and kept
C29_Witness ==
  /\ ConfigBuilt /\ TargetIs("json") /\ Supplied
  /\ calc.ran = {"JSONPath"}
  /\ calc.exit.tag = "Success"
  /\ calc.exit.value.value.jsonPath = calc.exportPath.value

\* --- C30 ------------------------------------------------------------------

\* the words that are neither read as a flag nor as the value of one, from k on,
\* in the order of the command line
RECURSIVE ColoursFrom(_, _)
ColoursFrom(args, k) ==
  IF k > Len(args) THEN <<>>
  ELSE IF ReadAsFlag(args, k) \/ ReadAsValue(args, k) THEN ColoursFrom(args, k + 1)
  ELSE <<args[k]>> \o ColoursFrom(args, k + 1)

LocalOf(st, flag) ==
  CASE flag = "--source-bg" -> st.sourceBg
    [] flag = "--target-bg" -> st.targetBg
    [] flag = "--format" -> st.format

\* a turn of the scan that looks at the argument of index i (from 0) and throws
\* nothing: a flag takes the next argument as its value, whatever it is, and goes
\* past it; any other word is appended to colors
TurnAsStated ==
  LET args == calc.args
      i == calc.st.i
  IN  /\ ~ReadAsValue(args, i + 1)
      /\ calc'.st.i > i
      /\ \A j \in 1..Len(calc.visited) : calc.visited[j] < i
      /\ IF ReadAsFlag(args, i + 1)
         THEN /\ calc'.st.colors = calc.st.colors
              /\ calc'.st.thrown = None =>
                   /\ calc'.st.i = i + 2
                   /\ LocalOf(calc'.st, args[i + 1]) = At(args, i + 1)
         ELSE /\ calc'.st.colors = Append(calc.st.colors, args[i + 1])
              /\ calc'.st.i = i + 1

\* the scan ends and returns: colors holds the words that are neither flags nor
\* values, in order, and each flag has the value of its last occurrence
ReturnAsStated ==
  LET args == calc'.args
      value == calc'.exit.value
  IN  /\ value.colors = ColoursFrom(args, 1)
      /\ value.sourceBg = ValueOfLast(args, "--source-bg")
      /\ value.targetBg = ValueOfLast(args, "--target-bg")
      /\ FlagRead(args, "--format") => value.format = ValueOfLast(args, "--format")
      /\ Len(calc'.visited) <= Len(args)

ScanAsStated ==
  /\ (Scanning /\ calc'.exit = None) => TurnAsStated
  /\ (Scanning /\ calc'.exit # None /\ calc'.exit.tag = "Success") => ReturnAsStated

ScanOver == calc # None /\ calc.tag = "Scan" /\ calc.exit # None

\* C30: in the scan of parseArgs from left to right, the argument after
\* --source-bg, --target-bg or --format is taken as the value of that flag, even
\* when it looks like a flag, and never added to colors; every other word is
\* appended to colors in the order of the command line; of a flag read more than
\* once the value of the last one is returned; no argument is visited twice and the
\* scan comes to its end.
C30_Scan == [][ScanAsStated]_vars /\ <>ScanOver

\* a scan that returned, in which a word that looks like a flag was the value of
\* --source-bg, which was read a second time with another value
C30_Witness ==
  /\ ScanOver
  /\ calc.exit.tag = "Success"
  /\ calc.args[1] = "--source-bg" /\ calc.args[2] = "--target-bg"
  /\ calc.exit.value.sourceBg = "oklch"
  /\ calc.visited = <<0, 2, 4, 6>>
  /\ Len(calc.args) = 7

====
